---------------------------- MODULE Spec2Model ----------------------------
(***************************************************************************)
(* State-machine model of the agent/tool orchestration subsystem of the    *)
(* chat application: the event relay (lib/agent/events, found in           *)
(* src/src/lib/agent/tools/index.ts), the in-process image cache           *)
(* (src/unnamed/part_021), and the chat POST handler                       *)
(* (src/src/app/api/chat/[id]/route.ts) with the agent eligibility check   *)
(* of src/src/lib/agent/runtime.ts, the store, the agent run, the media    *)
(* proxy, the Google credentials and the model selection of the browser.   *)
(***************************************************************************)
EXTENDS Integers, Sequences, FiniteSets, TLC

(***************************************************************************)
(* Bounds of the model.                                                    *)
(***************************************************************************)
MaxSubs == 2
MaxEvents == 2
MaxKeepAlive == 1

VARIABLES
    \* ---- event relay (src/src/lib/agent/tools/index.ts) ----
    listeners,      \* emitter: chat id -> listeners in registration order
    subChat,        \* subscription -> chat id it was opened for ("none": not opened)
    streamState,    \* subscription -> state of its ReadableStream
    closed,         \* subscription -> the `closed` flag of sseSubscribe
    keepAlive,      \* subscription -> TRUE while the setInterval timer is armed
    cleanupHolder,  \* subscription -> the object that carries `_cleanup`
    frames,         \* subscription -> event frames enqueued on the connection
    keepAliveFrames,\* subscription -> number of keep-alive frames enqueued
    published,      \* history: the emitAgentEvent calls made so far
    teardowns,      \* history: how often cleanup took effect per subscription
    \* ---- image cache (src/unnamed/part_021) ----
    imageCache,     \* the Map: entry i is stored under the i-th generated id
    cacheCalls,     \* history: the cacheDataUrl calls and what each returned
    \* ---- chat POST handler (src/src/app/api/chat/[id]/route.ts) ----
    env,            \* process.env: AGENT_TOOLS_ENABLED and XAI_API_KEY
    chatsTbl,       \* table chats: chat id -> row (exists = FALSE: no row)
    messagesTbl,    \* table messages: the rows in insertion order
    reqCount,       \* number of POST requests started
    pc,             \* where the handler of the current request stands
    req,            \* the current request: session and JSON body
    loc,            \* the handler's locals
    out,            \* history of the current request: calls made, response
    \* ---- store: videos table, DELETE and message listing handlers ----
    videosTbl,      \* table videos: the rows in insertion order
    delOut,         \* the DELETE request just answered, with the tables before it
    listOut,        \* the message listing request just answered
    \* ---- agent run (src/src/lib/agent/runtime.ts, tools) ----
    agentPc,        \* "idle", "running", "done" or "failed"
    runNo,          \* number of agent runs started
    runChat,        \* TRUE when the run was given a chat id
    toolUsed,       \* generation tool of this run -> its `used` field
    apiCalls,       \* generation tool -> external generation calls of this run
    toolCalls,      \* the tool calls of this run, in the order they were made
    agentEvents,    \* the events this run handed to emitAgentEvent, in order
    toolEventsFlag, \* toolEventsFlag.value
    staleListener,  \* TRUE while the run's chat has a listener whose connection
                    \* was cancelled but which is still registered: emit throws
    agentResult,    \* what runAgentWithTools returned or why it threw
    \* ---- Google credentials (src/src/lib/google/oauth.ts) ----
    usersTbl,       \* users table: user id -> the row's Google columns
    now,            \* Date.now(), in ms
    googleEnv,      \* the GOOGLE_* environment variables that are set
    providerCalls,  \* history: requests sent to the token endpoint
    oauthCalls,     \* history: calls made so far
    tokenOut,       \* outcome of the last getValidGoogleAccessToken
    toolOut,        \* outcome of the last ListCalendarEventsTool._call
    \* ---- media proxy (src/unnamed/part_008) ----
    proxyCalls,     \* history: GET requests answered so far
    proxyOut,       \* the last response of the proxy
    upstreamLog,    \* history: the targets of the upstream requests, in order
    \* ---- model selection (src/unnamed/part_002) ----
    chatSettings,   \* the settings context of the browser
    selectCalls,    \* the selectModel calls that sent a request, in call order
    storedSelection, \* provider and model of the conversation's row
    pageProps,      \* the provider and model the page handed to Chat
    refreshPending  \* router.refresh() was called and has not landed

relayVars == <<listeners, subChat, streamState, closed, keepAlive,
               cleanupHolder, frames, keepAliveFrames, published, teardowns>>

cacheVars == <<imageCache, cacheCalls>>

chatVars == <<env, chatsTbl, messagesTbl, reqCount, pc, req, loc, out>>

storeVars == <<videosTbl, delOut, listOut>>

agentVars == <<agentPc, runNo, runChat, toolUsed, apiCalls, toolCalls,
               agentEvents, toolEventsFlag, staleListener, agentResult>>

oauthVars == <<usersTbl, now, googleEnv, providerCalls, oauthCalls, tokenOut,
               toolOut>>

proxyVars == <<proxyCalls, proxyOut, upstreamLog>>

selectVars == <<chatSettings, selectCalls, storedSelection, pageProps, refreshPending>>

vars == <<relayVars, cacheVars, chatVars, storeVars, agentVars, oauthVars, proxyVars,
          selectVars>>

nonRelayVars == <<cacheVars, chatVars, storeVars, agentVars, oauthVars, proxyVars,
                  selectVars>>
nonCacheVars == <<relayVars, chatVars, storeVars, agentVars, oauthVars, proxyVars,
                  selectVars>>
nonChatVars == <<relayVars, cacheVars, storeVars, agentVars, oauthVars, proxyVars,
                  selectVars>>
nonOAuthVars == <<relayVars, cacheVars, chatVars, storeVars, agentVars, proxyVars,
                  selectVars>>
nonSelectVars == <<relayVars, cacheVars, chatVars, storeVars, agentVars, oauthVars,
                   proxyVars>>
nonProxyVars == <<relayVars, cacheVars, chatVars, storeVars, agentVars, oauthVars,
                  selectVars>>
\* what an agent run leaves alone: everything but its own state and the
\* image cache
nonAgentVars == <<relayVars, cacheCalls, chatVars, storeVars, oauthVars, proxyVars,
                  selectVars>>
\* what the store's operations leave alone: everything but the three tables
\* and the two handler histories
nonStoreVars == <<relayVars, cacheVars, env, reqCount, pc, req, loc, out, agentVars,
                  oauthVars, proxyVars, selectVars>>

ChatIds == {"c1", "c2"}
Subs == 1..MaxSubs
EventTypes == {"tool-start", "tool-result", "final"}
\* The relay never inspects an event; its publishers are driven with one kind.
RelayEventTypes == {"tool-result"}

\* Event frames on a connection: the initial ping, or the index (in
\* `published`) of a relayed event.  Keep-alive comment frames are counted.
PingFrame == 0

RECURSIVE SeqRemove(_, _)
SeqRemove(seq, x) ==
    IF seq = << >> THEN << >>
    ELSE IF Head(seq) = x THEN Tail(seq)
    ELSE <<Head(seq)>> \o SeqRemove(Tail(seq), x)

RECURSIVE CountIn(_, _)
CountIn(seq, x) ==
    IF seq = << >> THEN 0
    ELSE (IF Head(seq) = x THEN 1 ELSE 0) + CountIn(Tail(seq), x)

Range(seq) == {seq[i] : i \in 1..Len(seq)}

\* controller.enqueue throws unless the stream is still readable.
CanEnqueue(s) == streamState[s] = "readable"

\* EventEmitter.emit: the listeners registered for chatId are called in
\* registration order; a listener that throws ends the emit, the exception
\* leaves emit and the remaining listeners are not called.
FirstFailing(ls) ==
    IF \E i \in 1..Len(ls) : ~CanEnqueue(ls[i])
    THEN CHOOSE i \in 1..Len(ls) :
            /\ ~CanEnqueue(ls[i])
            /\ \A j \in 1..(i - 1) : CanEnqueue(ls[j])
    ELSE 0

EmitReceivers(chatId) ==
    LET ls == listeners[chatId]
        k  == FirstFailing(ls)
    IN  IF k = 0 THEN Range(ls) ELSE {ls[j] : j \in 1..(k - 1)}

EmitThrows(chatId) == FirstFailing(listeners[chatId]) # 0

RelayInit ==
    /\ listeners = [c \in ChatIds |-> << >>]
    /\ subChat = [s \in Subs |-> "none"]
    /\ streamState = [s \in Subs |-> "none"]
    /\ closed = [s \in Subs |-> FALSE]
    /\ keepAlive = [s \in Subs |-> FALSE]
    /\ cleanupHolder = [s \in Subs |-> "none"]
    /\ frames = [s \in Subs |-> << >>]
    /\ keepAliveFrames = [s \in Subs |-> 0]
    /\ published = << >>
    /\ teardowns = [s \in Subs |-> 0]

\* sseSubscribe / ReadableStream.start: register the listener, send the
\* initial ping, arm the keep-alive timer, store cleanup on the controller.
Subscribe(s, chatId) ==
    /\ subChat[s] = "none"
    /\ \A r \in 1..(s - 1) : subChat[r] # "none"   \* connections are numbered as they open
    /\ subChat' = [subChat EXCEPT ![s] = chatId]
    /\ streamState' = [streamState EXCEPT ![s] = "readable"]
    /\ listeners' = [listeners EXCEPT ![chatId] = Append(@, s)]
    /\ frames' = [frames EXCEPT ![s] = <<PingFrame>>]
    /\ keepAlive' = [keepAlive EXCEPT ![s] = TRUE]
    /\ cleanupHolder' = [cleanupHolder EXCEPT ![s] = "controller"]
    /\ UNCHANGED <<closed, keepAliveFrames, published, teardowns>>
    /\ UNCHANGED nonRelayVars

\* emitAgentEvent(chatId, event)
EmitAgentEvent(chatId, type) ==
    /\ Len(published) < MaxEvents
    /\ LET n    == Len(published) + 1
           recv == EmitReceivers(chatId)
       IN  /\ frames' = [s \in Subs |->
                            IF s \in recv THEN Append(frames[s], n) ELSE frames[s]]
           /\ published' = Append(published,
                 [chat |-> chatId, type |-> type,
                  registered |-> Range(listeners[chatId]),
                  live |-> {s \in Range(listeners[chatId]) : CanEnqueue(s)},
                  threw |-> EmitThrows(chatId)])
    /\ UNCHANGED <<listeners, subChat, streamState, closed, keepAlive,
                   cleanupHolder, keepAliveFrames, teardowns>>
    /\ UNCHANGED nonRelayVars

\* A cleanup that deregisters the listener but leaves the interval armed.
CleanupKeepsTimer(s) ==
    IF closed[s]
    THEN UNCHANGED <<closed, listeners, keepAlive, teardowns>>
    ELSE /\ closed' = [closed EXCEPT ![s] = TRUE]
         /\ listeners' = [listeners EXCEPT ![subChat[s]] = SeqRemove(@, s)]
         /\ teardowns' = [teardowns EXCEPT ![s] = @ + 1]
         /\ UNCHANGED keepAlive

\* cleanup() of sseSubscribe: guarded by `closed`.
Cleanup(s) ==
    IF closed[s]
    THEN UNCHANGED <<closed, listeners, keepAlive, teardowns>>
    ELSE /\ closed' = [closed EXCEPT ![s] = TRUE]
         /\ listeners' = [listeners EXCEPT ![subChat[s]] = SeqRemove(@, s)]
         /\ keepAlive' = [keepAlive EXCEPT ![s] = FALSE]
         /\ teardowns' = [teardowns EXCEPT ![s] = @ + 1]

\* Client disconnect / stream cancellation: the stream is closed, then the
\* underlying source's cancel() runs with `this` bound to the underlying
\* source and calls this._cleanup if there is one.
Cancel(s) ==
    /\ streamState[s] = "readable"
    /\ streamState' = [streamState EXCEPT ![s] = "closed"]
    /\ IF cleanupHolder[s] = "source"
       THEN Cleanup(s)
       ELSE UNCHANGED <<closed, listeners, keepAlive, teardowns>>
    /\ UNCHANGED <<subChat, cleanupHolder, frames, keepAliveFrames, published>>
    /\ UNCHANGED nonRelayVars

\* One firing of the setInterval callback.
KeepAliveTick(s) ==
    /\ keepAlive[s]
    /\ IF closed[s]
       THEN /\ keepAlive' = [keepAlive EXCEPT ![s] = FALSE]
            /\ UNCHANGED <<closed, listeners, teardowns, keepAliveFrames>>
       ELSE IF streamState[s] = "errored"
       THEN Cleanup(s) /\ UNCHANGED keepAliveFrames
       ELSE IF CanEnqueue(s)
       THEN /\ keepAliveFrames[s] < MaxKeepAlive
            /\ keepAliveFrames' = [keepAliveFrames EXCEPT ![s] = @ + 1]
            /\ UNCHANGED <<closed, listeners, keepAlive, teardowns>>
       ELSE Cleanup(s) /\ UNCHANGED keepAliveFrames
    /\ UNCHANGED <<subChat, streamState, cleanupHolder, frames, published>>
    /\ UNCHANGED nonRelayVars

RelayNext ==
    \/ \E s \in Subs, c \in ChatIds : Subscribe(s, c)
    \/ \E c \in ChatIds, t \in RelayEventTypes : EmitAgentEvent(c, t)
    \/ \E s \in Subs : Cancel(s)
    \/ \E s \in Subs : KeepAliveTick(s)


(***************************************************************************)
(* Event relay: properties.                                                *)
(***************************************************************************)
Registered(s) == subChat[s] # "none" /\ s \in Range(listeners[subChat[s]])

\* C1 (as claimed): every published event is written exactly once to every
\* connection that was subscribed (listener registered, connection open) when
\* it was published, and never to a connection that was not registered then.
C1_DeliveredExactlyOnceNoReplay ==
    \A n \in 1..Len(published) : \A s \in Subs :
        /\ s \in published[n].live => CountIn(frames[s], n) = 1
        /\ s \notin published[n].registered => CountIn(frames[s], n) = 0

\* C2 (as claimed): a connection only ever carries events of its own
\* conversation, and when a conversation has several subscribers each open
\* one carries every event published for it, in order of publication.
C2_IndependentAndComplete ==
    \A s \in Subs :
        /\ \A i \in 1..Len(frames[s]) :
              frames[s][i] # PingFrame => published[frames[s][i]].chat = subChat[s]
        /\ \A i, j \in 1..Len(frames[s]) : i < j => frames[s][i] < frames[s][j]
        /\ \A n \in 1..Len(published) :
              (Cardinality(published[n].registered) >= 2 /\ s \in published[n].live)
                  => CountIn(frames[s], n) = 1

C4_CancelDeregisters ==
    \A s \in Subs :
        streamState[s] = "closed" => (~Registered(s) /\ ~keepAlive[s])

\* C28: no call of emitAgentEvent throws, and an event published while the
\* listener of a closed connection was still registered reached every open
\* connection registered for its conversation.
C28_PublishNeverFails ==
    \A n \in 1..Len(published) :
        /\ ~published[n].threw
        /\ published[n].registered # published[n].live =>
              \A s \in published[n].live : CountIn(frames[s], n) >= 1

(***************************************************************************)
(* Image cache (src/unnamed/part_021).  Strings are sequences of character *)
(* codes: 0..63 are the base64 alphabet in its own order (A-Z, a-z, 0-9,   *)
(* +, /), the other characters used follow.                                *)
(***************************************************************************)
MaxBytes == 3
MaxCacheCalls == 2

ChEq == 64
ChColon == 65
ChSemi == 66
ChComma == 67
ChBang == 68
ChNewline == 69

ToLowerChar(c) == IF c \in 0..25 THEN c + 26 ELSE c
ToLowerStr(str) == [i \in 1..Len(str) |-> ToLowerChar(str[i])]

StrData == <<29, 26, 45, 26, ChColon>>                     \* "data:"
StrDataUpper == <<3, 0, 19, 0, ChColon>>                   \* "DATA:"
StrBase64 == <<ChSemi, 27, 26, 44, 30, 58, 56, ChComma>>   \* ";base64,"
StrImagePng == <<34, 38, 26, 32, 30, 63, 41, 39, 32>>      \* "image/png"
StrImageGifUpper == <<8, 12, 0, 6, 4, 63, 6, 8, 5>>        \* "IMAGE/GIF"
StrOctetStream == <<26, 41, 41, 63, 40, 28>>               \* stands for 'application/octet-stream'

\* /^data:([^;]+);base64,(.+)$/i : the scheme, a non-empty content type up
\* to the first ';', the marker, and a non-empty rest of the input without a
\* line terminator.
FirstSemi(str) ==
    IF \E i \in 1..Len(str) : str[i] = ChSemi
    THEN CHOOSE i \in 1..Len(str) :
            str[i] = ChSemi /\ \A j \in 1..(i - 1) : str[j] # ChSemi
    ELSE 0

DataUrlRegexExec(dataUrl) ==
    LET noMatch == [matched |-> FALSE, contentType |-> << >>, base64 |-> << >>]
    IN  IF Len(dataUrl) < 5 \/ ToLowerStr(SubSeq(dataUrl, 1, 5)) # StrData
        THEN noMatch
        ELSE LET rest == SubSeq(dataUrl, 6, Len(dataUrl))
                 p    == FirstSemi(rest)
             IN  IF p < 2 \/ Len(rest) < p + 8 THEN noMatch
                 ELSE IF ToLowerStr(SubSeq(rest, p, p + 7)) # StrBase64 THEN noMatch
                 ELSE LET body == SubSeq(rest, p + 8, Len(rest))
                      IN  IF \E i \in 1..Len(body) : body[i] = ChNewline
                          THEN noMatch
                          ELSE [matched |-> TRUE,
                                contentType |-> SubSeq(rest, 1, p - 1),
                                base64 |-> body]

\* Buffer.from(str, 'base64'): characters outside the alphabet are skipped,
\* decoding stops at the first '=', every 4 sextets give 3 bytes and a rest
\* of 2 or 3 sextets gives 1 or 2 bytes.  It does not throw.
RECURSIVE Sextets(_)
Sextets(str) ==
    IF str = << >> \/ Head(str) = ChEq THEN << >>
    ELSE IF Head(str) \in 0..63 THEN <<Head(str)>> \o Sextets(Tail(str))
    ELSE Sextets(Tail(str))

RECURSIVE BytesOfSextets(_)
BytesOfSextets(sx) ==
    IF Len(sx) >= 4
    THEN LET n == sx[1] * 262144 + sx[2] * 4096 + sx[3] * 64 + sx[4]
         IN  <<n \div 65536, (n \div 256) % 256, n % 256>>
                \o BytesOfSextets(SubSeq(sx, 5, Len(sx)))
    ELSE IF Len(sx) = 3
    THEN LET n == sx[1] * 4096 + sx[2] * 64 + sx[3]
         IN  <<n \div 1024, (n \div 4) % 256>>
    ELSE IF Len(sx) = 2
    THEN <<(sx[1] * 64 + sx[2]) \div 16>>
    ELSE << >>

\* A decoder that drops a final group shorter than 4 sextets.
BufferFromBase64DropsTail(str) ==
    LET sx == Sextets(str)
    IN  BytesOfSextets(SubSeq(sx, 1, 4 * (Len(sx) \div 4)))

BufferFromBase64(str) == BytesOfSextets(Sextets(str))

\* cacheDataUrl(dataUrl): 0 stands for null; the id of a stored entry is
\* its position (randomUUID gives an id not used before).
CacheDataUrlResult(dataUrl) ==
    LET m == DataUrlRegexExec(dataUrl)
    IN  IF ~m.matched
        THEN [id |-> 0, stored |-> FALSE, entry |-> [data |-> << >>, contentType |-> << >>]]
        ELSE [id |-> Len(imageCache) + 1, stored |-> TRUE,
              entry |-> [data |-> BufferFromBase64(m.base64),
                         contentType |-> IF m.contentType # << >>
                                         THEN m.contentType ELSE StrOctetStream]]

\* getCachedImage(id): found = FALSE stands for null (no entry).
GetCachedImage(id) ==
    IF id \in 1..Len(imageCache)
    THEN [found |-> TRUE, data |-> imageCache[id].data,
          contentType |-> imageCache[id].contentType]
    ELSE [found |-> FALSE, data |-> << >>, contentType |-> << >>]

\* GET /api/images/[id]
ImagesGET(id) ==
    LET entry == GetCachedImage(id)
    IN  IF ~entry.found
        THEN [status |-> 404, body |-> << >>, contentType |-> << >>]
        ELSE [status |-> 200, body |-> entry.data, contentType |-> entry.contentType]

\* Payloads handed to cacheDataUrl.  A well-formed one is built as the image
\* tools build it, `data:${mime};base64,${value}`, from the base64 text of
\* the image bytes.
ByteValues == {0, 255}

RECURSIVE Base64Encode(_)
Base64Encode(bytes) ==
    IF bytes = << >> THEN << >>
    ELSE IF Len(bytes) = 1
    THEN <<bytes[1] \div 4, (bytes[1] % 4) * 16, ChEq, ChEq>>
    ELSE IF Len(bytes) = 2
    THEN LET n == bytes[1] * 256 + bytes[2]
         IN  <<n \div 1024, (n \div 16) % 64, (n % 16) * 4, ChEq>>
    ELSE LET n == bytes[1] * 65536 + bytes[2] * 256 + bytes[3]
         IN  <<n \div 262144, (n \div 4096) % 64, (n \div 64) % 64, n % 64>>
                \o Base64Encode(SubSeq(bytes, 4, Len(bytes)))

DataUrlFromBase64(value, mime) == StrData \o mime \o StrBase64 \o value

ImageBytes == UNION {[1..n -> ByteValues] : n \in 1..MaxBytes}

WellFormedPayloads ==
    {[url |-> DataUrlFromBase64(Base64Encode(b), ct), valid |-> TRUE,
      contentType |-> ct, bytes |-> b] :
        b \in ImageBytes, ct \in {StrImagePng, StrImageGifUpper}}
    \cup {[url |-> StrDataUpper \o StrImagePng \o StrBase64 \o Base64Encode(<<255, 0>>),
           valid |-> TRUE, contentType |-> StrImagePng, bytes |-> <<255, 0>>]}

Malformed(url) == [url |-> url, valid |-> FALSE, contentType |-> << >>, bytes |-> << >>]

MalformedPayloads ==
    { Malformed(<< >>),                                             \* ""
      Malformed(<<33, 34>>),                                        \* "hi"
      Malformed(StrData \o StrImagePng \o StrBase64),               \* no body
      Malformed(StrData \o StrBase64 \o <<19, 16, ChEq, ChEq>>),    \* no content type
      Malformed(StrData \o StrImagePng \o <<ChComma, 19, 16, ChEq, ChEq>>), \* not base64-marked
      Malformed(StrData \o StrImagePng \o StrBase64 \o <<19, 16, ChEq, ChEq, ChNewline>>),
      Malformed(StrData \o StrImagePng \o StrBase64 \o <<ChBang, ChBang, ChBang, ChBang>>) }

Payloads == WellFormedPayloads \cup MalformedPayloads

CacheInit ==
    /\ imageCache = << >>
    /\ cacheCalls = << >>

\* One call of cacheDataUrl.
CacheDataUrl(p) ==
    /\ Len(cacheCalls) < MaxCacheCalls
    /\ LET r == CacheDataUrlResult(p.url)
       IN  /\ imageCache' = IF r.stored THEN Append(imageCache, r.entry) ELSE imageCache
           /\ cacheCalls' = Append(cacheCalls, [payload |-> p, id |-> r.id])
    /\ UNCHANGED nonCacheVars

CacheNext == \E p \in Payloads : CacheDataUrl(p)

(***************************************************************************)
(* Image cache: properties.                                                *)
(***************************************************************************)
\* C5: for every well-formed payload handed to cacheDataUrl an id is
\* returned, and looking that id up (getCachedImage, and GET /api/images/id)
\* yields the original bytes and content type, also after later inserts.
C5_CacheRoundTrip ==
    \A i \in 1..Len(cacheCalls) :
        cacheCalls[i].payload.valid =>
            /\ cacheCalls[i].id # 0
            /\ GetCachedImage(cacheCalls[i].id) =
                  [found |-> TRUE, data |-> cacheCalls[i].payload.bytes,
                   contentType |-> cacheCalls[i].payload.contentType]
            /\ ImagesGET(cacheCalls[i].id) =
                  [status |-> 200, body |-> cacheCalls[i].payload.bytes,
                   contentType |-> cacheCalls[i].payload.contentType]
            /\ \A j \in 1..Len(cacheCalls) :
                  (j # i /\ cacheCalls[j].id # 0) => cacheCalls[j].id # cacheCalls[i].id

\* C5 witness: a well-formed payload was cached and another insert followed.
C5_Witness ==
    /\ Len(cacheCalls) = 2
    /\ cacheCalls[1].payload.valid /\ Len(cacheCalls[1].payload.bytes) = 2
    /\ cacheCalls[2].id = 2
    /\ GetCachedImage(cacheCalls[1].id).data = cacheCalls[1].payload.bytes

\* C6 (as claimed): for every malformed payload cacheDataUrl returns null
\* and adds no entry.
C6_MalformedGivesNull ==
    \A i \in 1..Len(cacheCalls) :
        ~cacheCalls[i].payload.valid =>
            /\ cacheCalls[i].id = 0
            /\ Len(imageCache) = Cardinality({j \in 1..Len(cacheCalls) : cacheCalls[j].payload.valid})

(***************************************************************************)
(* Providers (src/src/lib/providers/index.ts) and agent eligibility        *)
(* (src/src/lib/agent/runtime.ts).                                         *)
(***************************************************************************)
DEFAULT_PROVIDER_ID == "openai"
DEFAULT_MODEL_ID == "gpt-4o"
AGENT_ALLOWED_PROVIDERS == {"openai", "xai"}

\* PROVIDER_GROUPS: the providers and, in order, some of their models.
ProviderModels ==
    [openai |-> <<"gpt-5.1-codex-max", "gpt-4o">>,
     xai    |-> <<"grok-4-1-fast-reasoning", "grok-code-fast-1">>]
ProviderIds == DOMAIN ProviderModels

\* "undefined" stands for a field the request body does not carry.
NormalizeModelSelection(providerId, modelId) ==
    LET fallback == [providerId |-> DEFAULT_PROVIDER_ID, modelId |-> DEFAULT_MODEL_ID]
    IN  IF providerId = "undefined" \/ modelId = "undefined" THEN fallback
        ELSE IF providerId \notin ProviderIds THEN fallback
        ELSE IF modelId \notin Range(ProviderModels[providerId])
        THEN [providerId |-> providerId, modelId |-> ProviderModels[providerId][1]]
        ELSE [providerId |-> providerId, modelId |-> modelId]

\* Boolean(process.env.X): unset and the empty string are falsy.
EnvTruthy(v) == v \notin {"unset", ""}

ToLowerFlag(v) == IF v \in {"FALSE", "False"} THEN "false" ELSE v

\* resolveLanguageModel: TRUE when a model handle is returned, FALSE when it
\* throws (xai without a client, unsupported provider).
ResolveLanguageModelOk(providerId) ==
    IF providerId = "openai" THEN TRUE
    ELSE IF providerId = "xai" THEN EnvTruthy(env.XAI_API_KEY)
    ELSE FALSE

AgentToolsEnabled ==
    env.AGENT_TOOLS_ENABLED = "unset" \/ ToLowerFlag(env.AGENT_TOOLS_ENABLED) # "false"

\* An eligibility check that forgets the feature flag.
IsAgentEligibleIgnoresFlag(providerId) ==
    IF providerId \notin AGENT_ALLOWED_PROVIDERS THEN FALSE
    ELSE IF providerId = "xai" THEN EnvTruthy(env.XAI_API_KEY)
    ELSE TRUE

IsAgentEligible(providerId) ==
    IF ~AgentToolsEnabled \/ providerId \notin AGENT_ALLOWED_PROVIDERS THEN FALSE
    ELSE IF providerId = "xai" THEN EnvTruthy(env.XAI_API_KEY)
    ELSE TRUE

(***************************************************************************)
(* Chat POST handler (src/src/app/api/chat/[id]/route.ts, POST).           *)
(***************************************************************************)
MaxRequests == 2
MaxMsgs == 5
MAX_MESSAGES == 4

Users == {"u1", "u2"}
FlagValues == {"unset", "FALSE", "true"}
KeyValues == {"unset", "k"}

\* The i-th message of a list of n: roles alternate and the newest message
\* is the user's; contents cycle through a plain text, a text holding an
\* inline image, an over-long text and an empty text.
ContentCycle == <<"text", "dataurl", "long", "">>
MessageAt(i, n) ==
    [id |-> i,
     role |-> IF (n - i) % 2 = 0 THEN "user" ELSE "assistant",
     content |-> ContentCycle[((i - 1) % 4) + 1]]
MessageList(n) == [i \in 1..n |-> MessageAt(i, n)]

\* The lengths of the inbound lists: empty, one message, and more messages
\* than the prompt window holds.
ListLengths == {0, 1, MaxMsgs}

\* body.messages: missing, not an array, or an array of messages.
MessagesInputs ==
    {[kind |-> "missing", list |-> << >>], [kind |-> "notarray", list |-> << >>]}
    \cup {[kind |-> "array", list |-> MessageList(n)] : n \in ListLengths}

SelectionInputs ==
    { [provider |-> "undefined", model |-> "undefined"],
      [provider |-> "xai", model |-> "grok-code-fast-1"],
      [provider |-> "xai", model |-> "bogus"],
      [provider |-> "other", model |-> "gpt-4o"] }

\* clampText(scrubDataUrls(text)) on the content kinds of ContentCycle.
ClampScrub(content) ==
    IF content = "dataurl" THEN "[image]"
    ELSE IF content = "long" THEN "clamped"
    ELSE content

\* normalizeToTextParts of a string content.
NormalizeToTextParts(content) ==
    IF content # "" THEN <<[type |-> "text", text |-> ClampScrub(content)]>>
    ELSE <<[type |-> "text", text |-> ""]>>

\* A window that keeps the oldest messages: messages.slice(0, MAX_MESSAGES)
SliceFirst(list, n) ==
    IF Len(list) <= n THEN list ELSE SubSeq(list, 1, n)

\* messages.slice(-MAX_MESSAGES)
SliceLast(list, n) ==
    IF Len(list) <= n THEN list ELSE SubSeq(list, Len(list) - n + 1, Len(list))

\* coreMessages, with the placeholder pushed when the list is empty.
CoreMessages(list) ==
    LET limited == SliceLast(list, MAX_MESSAGES)
        core == [i \in 1..Len(limited) |->
                    [role |-> limited[i].role,
                     content |-> NormalizeToTextParts(limited[i].content)]]
    IN  IF Len(core) = 0
        THEN <<[role |-> "user", content |-> <<[type |-> "text", text |-> "Hi"]>>]>>
        ELSE core

NoRow == [exists |-> FALSE, userId |-> "none", title |-> "", provider |-> "", model |-> ""]
NoReq == [session |-> "none", id |-> "none", messages |-> [kind |-> "missing", list |-> << >>],
          provider |-> "undefined", model |-> "undefined"]
NoLoc == [userId |-> "none", providerId |-> DEFAULT_PROVIDER_ID, modelId |-> DEFAULT_MODEL_ID,
          existingChat |-> FALSE, modelHandle |-> FALSE, coreMessages |-> << >>]
NoOut == [status |-> 0, kind |-> "none", agentCalls |-> 0, agentOutcome |-> "none",
          agentMessages |-> << >>, directCalls |-> 0, directMessages |-> << >>,
          chatCreated |-> FALSE, userSave |-> "none", assistantSaves |-> 0]

ChatInit ==
    /\ env \in [AGENT_TOOLS_ENABLED : FlagValues, XAI_API_KEY : KeyValues]
    /\ chatsTbl = [c \in ChatIds |-> NoRow]
    /\ messagesTbl = << >>
    /\ reqCount = 0
    /\ pc = "idle"
    /\ req = NoReq
    /\ loc = NoLoc
    /\ out = NoOut

\* String.prototype.substring(0, 50) on the content kinds of ContentCycle:
\* the inline image and the over-long text have more than 50 characters.
Substring50(content) ==
    IF content \in {"dataurl", "long"} THEN content \o "[0:50]" ELSE content

\* Lines 103-113: the title of a new chat, 'New Chat' unless the first
\* message has a text content.
ChatTitle(list) ==
    IF Len(list) > 0 THEN Substring50(list[1].content) ELSE "New Chat"

\* getChat(chatId, userId): the row with that id owned by that user.
GetChat(chatId, userId) ==
    IF chatsTbl[chatId].exists /\ chatsTbl[chatId].userId = userId
    THEN chatsTbl[chatId] ELSE NoRow

Respond(status, kind) == out' = [out EXCEPT !.status = status, !.kind = kind]

\* Lines 62-92: auth, ensureUser, parse the body, validate the message list.
PostBegin(session, body) ==
    /\ pc \in {"idle", "done"}
    /\ reqCount < MaxRequests
    /\ reqCount' = reqCount + 1
    /\ IF session = "none"
       THEN \* answered before req.json() is read
            /\ req' = NoReq
            /\ out' = [NoOut EXCEPT !.status = 401, !.kind = "error"]
            /\ loc' = NoLoc
            /\ pc' = "done"
       ELSE /\ req' = [session |-> session, id |-> body.id, messages |-> body.messages,
                       provider |-> body.provider, model |-> body.model]
            /\ loc' = [NoLoc EXCEPT !.userId = session]
            /\ IF body.messages.kind # "array"
               THEN /\ out' = [NoOut EXCEPT !.status = 400, !.kind = "error"]
                    /\ pc' = "done"
               ELSE /\ out' = NoOut
                    /\ pc' = "getChat"
    /\ UNCHANGED <<env, chatsTbl, messagesTbl>>
    /\ UNCHANGED nonChatVars

\* Lines 99-127: getChat; when the user has no such chat, createChat with
\* the normalized selection.  The insert fails when a row with that id
\* exists (primary key: the chat of another user); the catch of lines
\* 123-127 logs the error and the handler goes on.
PostGetOrCreateChat ==
    /\ pc = "getChat"
    /\ LET existingChat == GetChat(req.id, loc.userId)
           normalized == NormalizeModelSelection(req.provider, req.model)
           title == ChatTitle(req.messages.list)
       IN  IF ~existingChat.exists
           THEN /\ loc' = [loc EXCEPT !.providerId = normalized.providerId,
                                      !.modelId = normalized.modelId]
                /\ IF chatsTbl[req.id].exists
                   THEN UNCHANGED <<chatsTbl, out>>
                   ELSE /\ chatsTbl' = [chatsTbl EXCEPT ![req.id] =
                                           [exists |-> TRUE, userId |-> loc.userId, title |-> title,
                                            provider |-> normalized.providerId,
                                            model |-> normalized.modelId]]
                        /\ out' = [out EXCEPT !.chatCreated = TRUE]
           ELSE /\ loc' = [loc EXCEPT !.existingChat = TRUE,
                              !.providerId = IF existingChat.provider # ""
                                             THEN existingChat.provider
                                             ELSE DEFAULT_PROVIDER_ID,
                              !.modelId = IF existingChat.model # ""
                                          THEN existingChat.model
                                          ELSE DEFAULT_MODEL_ID]
                /\ UNCHANGED <<chatsTbl, out>>
    /\ pc' = "resolve"
    /\ UNCHANGED <<env, messagesTbl, reqCount, req>>
    /\ UNCHANGED nonChatVars

\* saveMessage: the insert needs the chat row to exist (foreign key) and
\* the database to answer; `dbOk` is whether it answers.
SaveMessageOk(dbOk) == dbOk /\ chatsTbl[req.id].exists

\* A route whose agent branch is not guarded by a catch would answer 500.
RouteAfterAgentThrowRethrows == "fail"

\* Line 254-256: the catch of the agent branch falls through to streamText.
RouteAfterAgentThrow == "direct"

\* A handler that lets a failed save of the user message reach the outer catch.
UserSaveFailureRethrows == "fail"

\* Lines 146-148: the catch around the save of the user message.
UserSaveFailure == "continue"

\* Lines 129-206: resolve the model handle, save the newest inbound message
\* (best effort), normalize the messages, decide the route.
PostResolveSaveRoute(dbOk) ==
    /\ pc = "resolve"
    /\ IF ~ResolveLanguageModelOk(loc.providerId)
       THEN /\ Respond(500, "error")
            /\ pc' = "done"
            /\ UNCHANGED <<messagesTbl, loc>>
       ELSE LET list == req.messages.list
                \* lastMessage.id on an empty list throws inside the try
                saved == Len(list) > 0 /\ SaveMessageOk(dbOk)
                core == CoreMessages(list)
            IN  /\ messagesTbl' = IF saved
                                  THEN Append(messagesTbl,
                                         [chatId |-> req.id, role |-> list[Len(list)].role])
                                  ELSE messagesTbl
                /\ loc' = [loc EXCEPT !.modelHandle = TRUE, !.coreMessages = core]
                /\ IF ~saved /\ UserSaveFailure = "fail"
                   THEN /\ out' = [out EXCEPT !.userSave = "failed", !.status = 500,
                                              !.kind = "error"]
                        /\ pc' = "done"
                   ELSE /\ out' = [out EXCEPT !.userSave = IF saved THEN "saved" ELSE "failed"]
                        /\ pc' = IF IsAgentEligible(loc.providerId) THEN "agent" ELSE "direct"
    /\ UNCHANGED <<env, chatsTbl, reqCount, req>>
    /\ UNCHANGED nonChatVars

AgentOutcomes == {"result", "model-error", "timeout", "no-assistant-message", "planner-error"}

\* buildAgentTools(userId): the three calendar tools.
AgentTools ==
    {"google_calendar_list_events", "google_calendar_create_event",
     "google_calendar_update_event"}

\* Lines 207-215 with runAgentWithTools: the runtime returns a result or
\* throws; a throw is caught at line 254.
PostAgentRun(outcome) ==
    /\ pc = "agent"
    /\ LET thrown == IF Cardinality(AgentTools) = 0 THEN "no-tools" ELSE outcome
       IN  /\ out' = [out EXCEPT !.agentCalls = @ + 1, !.agentOutcome = thrown,
                                 !.agentMessages = loc.coreMessages,
                                 !.status = IF thrown # "result" /\ RouteAfterAgentThrow = "fail"
                                            THEN 500 ELSE @,
                                 !.kind = IF thrown # "result" /\ RouteAfterAgentThrow = "fail"
                                          THEN "error" ELSE @]
           /\ pc' = IF thrown = "result" THEN "agentFinish"
                    ELSE IF RouteAfterAgentThrow = "fail" THEN "done"
                    ELSE "direct"
    /\ UNCHANGED <<env, chatsTbl, messagesTbl, reqCount, req, loc>>
    /\ UNCHANGED nonChatVars

\* Lines 217-257: cache the video (best effort), save the assistant
\* message, answer with the agent's stream; a failed save is caught by the
\* catch of the agent branch.
PostAgentFinish(dbOk) ==
    /\ pc = "agentFinish"
    /\ IF SaveMessageOk(dbOk)
       THEN /\ messagesTbl' = Append(messagesTbl,
                                [chatId |-> req.id, role |-> "assistant"])
            /\ out' = [out EXCEPT !.assistantSaves = @ + 1, !.status = 200,
                                  !.kind = "agent-stream"]
            /\ pc' = "done"
       ELSE /\ pc' = "direct"
            /\ UNCHANGED <<messagesTbl, out>>
    /\ UNCHANGED <<env, chatsTbl, reqCount, req, loc>>
    /\ UNCHANGED nonChatVars

\* Lines 259-286: streamText with the normalized messages, answered as a
\* UI message stream.
PostDirectStream ==
    /\ pc = "direct"
    /\ out' = [out EXCEPT !.directCalls = @ + 1, !.directMessages = loc.coreMessages,
                          !.status = 200, !.kind = "direct-stream"]
    /\ pc' = "onFinish"
    /\ UNCHANGED <<env, chatsTbl, messagesTbl, reqCount, req, loc>>
    /\ UNCHANGED nonChatVars

\* Lines 269-283: onFinish saves the assistant's response (best effort).
PostDirectOnFinish(dbOk) ==
    /\ pc = "onFinish"
    /\ IF SaveMessageOk(dbOk)
       THEN /\ messagesTbl' = Append(messagesTbl,
                                [chatId |-> req.id, role |-> "assistant"])
            /\ out' = [out EXCEPT !.assistantSaves = @ + 1]
       ELSE UNCHANGED <<messagesTbl, out>>
    /\ pc' = "done"
    /\ UNCHANGED <<env, chatsTbl, reqCount, req, loc>>
    /\ UNCHANGED nonChatVars

\* The chat ids the requests name (the [id] of the route).
PostChatIds == {"c1"}

\* The JSON bodies: a body without a usable message list carries no
\* selection (the handler answers before it looks at it).
BodyInputs ==
    {[id |-> c, messages |-> m, provider |-> s.provider, model |-> s.model] :
        c \in PostChatIds, m \in {x \in MessagesInputs : x.kind = "array"}, s \in SelectionInputs}
    \cup {[id |-> c, messages |-> m, provider |-> "undefined", model |-> "undefined"] :
        c \in PostChatIds, m \in {x \in MessagesInputs : x.kind # "array"}}

ChatNext ==
    \/ \E u \in Users \cup {"none"}, b \in BodyInputs : PostBegin(u, b)
    \/ PostGetOrCreateChat
    \/ \E dbOk \in BOOLEAN : PostResolveSaveRoute(dbOk)
    \/ \E o \in AgentOutcomes : PostAgentRun(o)
    \/ \E dbOk \in BOOLEAN : PostAgentFinish(dbOk)
    \/ PostDirectStream
    \/ \E dbOk \in BOOLEAN : PostDirectOnFinish(dbOk)

DefaultEnv == [AGENT_TOOLS_ENABLED |-> "unset", XAI_API_KEY |-> "unset"]

(***************************************************************************)
(* Properties of the chat POST handler.                                    *)
(***************************************************************************)

\* Eligibility in the words of the specification: the feature flag is
\* enabled, the provider is in the allow-list and, for xai, its key is
\* configured.
EligibleBySpec(providerId) ==
    /\ env.AGENT_TOOLS_ENABLED \notin {"false", "FALSE", "False"}
    /\ providerId \in {"openai", "xai"}
    /\ (providerId = "xai" => env.XAI_API_KEY \notin {"unset", ""})

\* The current request got past authentication and validation.
Validated == req.session # "none" /\ req.messages.kind = "array"

AgentThrew == out.agentOutcome \notin {"none", "result"}

\* C8: whenever the agent runtime throws, the handler falls back to direct
\* streaming with the same normalized messages and the request is not
\* answered with an error.
C8_AgentFailureFallsBack ==
    AgentThrew =>
        /\ out.kind # "error" /\ out.status \in {0, 200}
        /\ pc \in {"direct", "onFinish", "done"}
        /\ (pc \in {"onFinish", "done"} =>
              /\ out.directCalls = 1
              /\ out.directMessages = out.agentMessages
              /\ out.directMessages = CoreMessages(req.messages.list)
              /\ out.status = 200 /\ out.kind = "direct-stream")

\* C8 witness: the agent runtime timed out and the request was answered by
\* direct streaming.
C8_Witness ==
    /\ pc = "done" /\ out.agentOutcome = "timeout"
    /\ out.agentCalls = 1 /\ out.directCalls = 1
    /\ out.status = 200 /\ out.kind = "direct-stream"

\* C9: a request whose message list is missing, not a list, or empty is
\* answered 400, and then no conversation is created, no message is
\* persisted and no model or agent is invoked.
C9_InvalidListRejected ==
    (pc = "done" /\ req.session # "none"
        /\ (req.messages.kind # "array" \/ Len(req.messages.list) = 0))
      => /\ out.status = 400
         /\ ~out.chatCreated
         /\ out.userSave # "saved" /\ out.assistantSaves = 0
         /\ out.agentCalls = 0 /\ out.directCalls = 0

\* C10: when saving the newest inbound message fails, the handler still
\* normalizes the messages, routes, and answers with a model response, not
\* an error.
C10_UserSaveFailureSwallowed ==
    (out.userSave = "failed" /\ Len(req.messages.list) > 0) =>
        /\ out.kind # "error" /\ out.status \in {0, 200}
        /\ loc.coreMessages = CoreMessages(req.messages.list)
        /\ pc \in {"agent", "agentFinish", "direct", "onFinish", "done"}
        /\ (pc = "done" =>
              /\ out.status = 200
              /\ out.kind \in {"agent-stream", "direct-stream"}
              /\ out.agentCalls + out.directCalls >= 1)

\* C10 witness: the save of the user's message failed and the request was
\* still answered with the agent's response.
C10_Witness ==
    /\ pc = "done" /\ out.userSave = "failed" /\ Len(req.messages.list) > 0
    /\ out.status = 200 /\ out.kind = "agent-stream"

\* the caller of the current request has a conversation with the
\* request's id
CallerHasChat == chatsTbl[req.id].exists /\ chatsTbl[req.id].userId = loc.userId

\* C21: the look-up-or-create step of a request.  When the caller has no
\* conversation with the request's id, the step creates the row with that
\* id for the caller, with the title taken from the truncated first
\* message and the normalized requested provider and model, and touches no
\* other row; when the caller has one, the step leaves the table alone and
\* the request goes on with the stored provider and model.
C21_LookUpOrCreate ==
    [][(pc = "getChat" /\ pc' = "resolve") =>
          LET normalized == NormalizeModelSelection(req.provider, req.model)
          IN  /\ ~CallerHasChat =>
                    /\ chatsTbl'[req.id] =
                          [exists |-> TRUE, userId |-> loc.userId,
                           title |-> ChatTitle(req.messages.list),
                           provider |-> normalized.providerId,
                           model |-> normalized.modelId]
                    /\ \A c \in ChatIds \ {req.id} : chatsTbl'[c] = chatsTbl[c]
                    /\ loc'.providerId = normalized.providerId
                    /\ loc'.modelId = normalized.modelId
              /\ CallerHasChat =>
                    /\ chatsTbl' = chatsTbl
                    /\ loc'.providerId = chatsTbl[req.id].provider
                    /\ loc'.modelId = chatsTbl[req.id].model
    ]_vars

\* C22: within one chat request the agent runtime is invoked at most once
\* and direct streaming at most once, and direct streaming follows an
\* invocation of the agent runtime only as the fallback of its failure: the
\* hosted model is not asked a second time after a run that returned a result.
C22_NoRetries ==
    /\ out.agentCalls <= 1
    /\ out.directCalls <= 1
    /\ (out.agentCalls = 1 /\ out.directCalls = 1) => out.agentOutcome # "result"

\* The list handed to the agent runtime or to direct streaming is the
\* prompt window of the inbound list: not empty, at most 4 messages, the
\* most recent ones in their order with their roles and their normalized
\* contents; for an empty inbound list, the placeholder user message.
IsPromptWindow(handed, list) ==
    LET n == Len(list)
        k == IF n < 4 THEN n ELSE 4
    IN  /\ Len(handed) >= 1
        /\ Len(handed) <= 4
        /\ n > 0 =>
              /\ Len(handed) = k
              /\ \A j \in 1..k :
                    /\ handed[j].role = list[n - k + j].role
                    /\ handed[j].content = NormalizeToTextParts(list[n - k + j].content)
        /\ n = 0 =>
              handed = <<[role |-> "user", content |-> <<[type |-> "text", text |-> "Hi"]>>]>>

\* C26: whenever the agent runtime or direct streaming has been invoked for
\* the request, the list it was given is the prompt window of the inbound
\* list.
C26_PromptWindow ==
    /\ out.agentCalls > 0 => IsPromptWindow(out.agentMessages, req.messages.list)
    /\ out.directCalls > 0 => IsPromptWindow(out.directMessages, req.messages.list)

\* C26 witness: an inbound list longer than the window went to the agent
\* runtime, whose failure handed the same four messages to direct
\* streaming, the oldest message dropped.
C26_Witness ==
    /\ pc = "done" /\ Len(req.messages.list) > 4
    /\ out.agentCalls = 1 /\ out.directCalls = 1
    /\ Len(out.agentMessages) = 4 /\ out.directMessages = out.agentMessages
    /\ out.agentMessages[1].role = req.messages.list[Len(req.messages.list) - 3].role
    /\ out.agentMessages[4].role = "user"

\* C27: a step of the POST handler inserts a message row only into a
\* conversation owned by the user of the request, and leaves the
\* conversation rows of the other users as they are.
C27_CrossUserWriteIsolation ==
    [][/\ Len(messagesTbl') > Len(messagesTbl) =>
             chatsTbl[messagesTbl'[Len(messagesTbl')].chatId].userId = loc.userId
       /\ \A c \in ChatIds :
             (chatsTbl[c].exists /\ chatsTbl[c].userId # loc.userId)
                => chatsTbl'[c] = chatsTbl[c]
    ]_vars

\* C29: once runAgentWithTools has returned a result for the request,
\* direct streaming is not invoked for it and the request is answered with
\* the agent's stream; at most one assistant message is saved per request.
C29_ExactlyOneResponsePath ==
    /\ out.agentOutcome = "result" => out.directCalls = 0
    /\ (pc = "done" /\ out.agentOutcome = "result")
          => (out.status = 200 /\ out.kind = "agent-stream")
    /\ out.assistantSaves <= 1

(***************************************************************************)
(* Store: the tables (src/src/lib/db/schema.ts), DELETE /api/chat/[id]     *)
(* (src/src/app/api/chat/[id]/route.ts) and GET /api/chats/[id]/messages   *)
(* (src/src/app/api/chats/[id]/messages/route.ts).                         *)
(***************************************************************************)
MaxMessageRows == 2
MaxVideoRows == 1

MessageRoles == {"user", "assistant"}

NoDel == [status |-> 0, session |-> "none", id |-> "none",
          chatsBefore |-> [c \in ChatIds |-> NoRow],
          messagesBefore |-> << >>, videosBefore |-> << >>]
NoList == [status |-> 0, session |-> "none", id |-> "none", messages |-> << >>]

StoreInit ==
    /\ videosTbl = << >>
    /\ delOut = NoDel
    /\ listOut = NoList

\* messages of a chat, or videos of a chat: the rows with that chat_id, in
\* insertion (created_at) order
RowsOfChat(tbl, chatId) == SelectSeq(tbl, LAMBDA r : r.chatId = chatId)
RowsNotOfChat(tbl, chatId) == SelectSeq(tbl, LAMBDA r : r.chatId # chatId)

\* getChatMessages(chatId)
GetChatMessages(chatId) == RowsOfChat(messagesTbl, chatId)

\* createChat(userId, title, id): inserts the row; a second row with the
\* same primary key is refused by the database.
DbCreateChat(userId, chatId) ==
    /\ ~chatsTbl[chatId].exists
    /\ chatsTbl' = [chatsTbl EXCEPT ![chatId] =
                      [exists |-> TRUE, userId |-> userId, title |-> "New Chat",
                       provider |-> DEFAULT_PROVIDER_ID, model |-> DEFAULT_MODEL_ID]]
    /\ delOut' = NoDel /\ listOut' = NoList
    /\ UNCHANGED <<messagesTbl, videosTbl>>
    /\ UNCHANGED nonStoreVars

\* saveMessage(chatId, message): chat_id references chats.id, so the insert
\* is refused when no such chat exists.
DbSaveMessage(chatId, role) ==
    /\ chatsTbl[chatId].exists
    /\ Len(messagesTbl) < MaxMessageRows
    /\ messagesTbl' = Append(messagesTbl, [chatId |-> chatId, role |-> role])
    /\ delOut' = NoDel /\ listOut' = NoList
    /\ UNCHANGED <<chatsTbl, videosTbl>>
    /\ UNCHANGED nonStoreVars

\* db.insert(videos): chat_id references chats.id.
DbInsertVideo(chatId, userId) ==
    /\ chatsTbl[chatId].exists
    /\ Len(videosTbl) < MaxVideoRows
    /\ videosTbl' = Append(videosTbl, [chatId |-> chatId, userId |-> userId])
    /\ delOut' = NoDel /\ listOut' = NoList
    /\ UNCHANGED <<chatsTbl, messagesTbl>>
    /\ UNCHANGED nonStoreVars

\* A delete whose foreign keys do not cascade to the videos.
DbDeleteChatKeepsVideos(chatId, userId) ==
    IF chatsTbl[chatId].exists /\ chatsTbl[chatId].userId = userId
    THEN /\ chatsTbl' = [chatsTbl EXCEPT ![chatId] = NoRow]
         /\ messagesTbl' = RowsNotOfChat(messagesTbl, chatId)
         /\ UNCHANGED videosTbl
    ELSE UNCHANGED <<chatsTbl, messagesTbl, videosTbl>>

\* deleteChat(chatId, userId): deletes the row with that id and owner; the
\* rows of messages and videos that reference it go with it (onDelete:
\* 'cascade').
DbDeleteChat(chatId, userId) ==
    IF chatsTbl[chatId].exists /\ chatsTbl[chatId].userId = userId
    THEN /\ chatsTbl' = [chatsTbl EXCEPT ![chatId] = NoRow]
         /\ messagesTbl' = RowsNotOfChat(messagesTbl, chatId)
         /\ videosTbl' = RowsNotOfChat(videosTbl, chatId)
    ELSE UNCHANGED <<chatsTbl, messagesTbl, videosTbl>>

\* A lookup that forgets the owner.
GetChatAnyOwner(chatId, userId) == chatsTbl[chatId]

\* getChat as the DELETE handler calls it.
DeleteGetChat(chatId, userId) == GetChat(chatId, userId)

\* DELETE /api/chat/[id]
ChatDELETE(session, chatId) ==
    /\ delOut' = [status |-> IF session = "none" THEN 401
                             ELSE IF chatId = "" THEN 400
                             ELSE IF ~DeleteGetChat(chatId, session).exists THEN 404
                             ELSE 200,
                  session |-> session, id |-> chatId,
                  chatsBefore |-> chatsTbl,
                  messagesBefore |-> messagesTbl, videosBefore |-> videosTbl]
    /\ IF session # "none" /\ chatId # "" /\ DeleteGetChat(chatId, session).exists
       THEN DbDeleteChat(chatId, session)
       ELSE UNCHANGED <<chatsTbl, messagesTbl, videosTbl>>
    /\ listOut' = NoList
    /\ UNCHANGED nonStoreVars

\* GET /api/chats/[id]/messages
MessagesGET(session, chatId) ==
    /\ listOut' = IF session = "none"
                  THEN [status |-> 401, session |-> session, id |-> chatId,
                        messages |-> << >>]
                  ELSE [status |-> 200, session |-> session, id |-> chatId,
                        messages |-> GetChatMessages(chatId)]
    /\ delOut' = NoDel
    /\ UNCHANGED <<chatsTbl, messagesTbl, videosTbl>>
    /\ UNCHANGED nonStoreVars

StoreNext ==
    \/ \E u \in Users, c \in ChatIds : DbCreateChat(u, c)
    \/ \E c \in ChatIds, r \in MessageRoles : DbSaveMessage(c, r)
    \/ \E c \in ChatIds, u \in Users : DbInsertVideo(c, u)
    \/ \E s \in Users \cup {"none"}, c \in ChatIds : ChatDELETE(s, c)
    \/ \E s \in Users \cup {"none"}, c \in ChatIds : MessagesGET(s, c)

(***************************************************************************)
(* Properties of the store.                                                *)
(***************************************************************************)

\* C11: a DELETE of a conversation that the requesting user does not own is
\* answered 404 and leaves the conversation and all its messages in
\* storage; a conversation is removed only by a DELETE of its owner.
C11_DeleteRequiresOwnership ==
    /\ [](\A c \in ChatIds :
            (delOut.id = c /\ delOut.session # "none"
                /\ delOut.chatsBefore[c].exists
                /\ delOut.chatsBefore[c].userId # delOut.session)
              => /\ delOut.status = 404
                 /\ chatsTbl = delOut.chatsBefore
                 /\ messagesTbl = delOut.messagesBefore
                 /\ videosTbl = delOut.videosBefore)
    /\ [][\A c \in ChatIds :
            (chatsTbl[c].exists /\ ~chatsTbl'[c].exists)
              => (delOut'.status = 200 /\ delOut'.id = c
                  /\ delOut'.session = chatsTbl[c].userId)]_vars

\* C11 witness: the chat of u1, holding a message, survived a DELETE by u2.
C11_Witness ==
    /\ delOut.status = 404 /\ delOut.session = "u2" /\ delOut.id = "c1"
    /\ chatsTbl["c1"].exists /\ chatsTbl["c1"].userId = "u1"
    /\ Len(GetChatMessages("c1")) > 0

\* C12: a listing of the messages of a conversation that is unknown or not
\* owned by the authenticated user is answered 404 and carries none of the
\* conversation's messages; the owner gets the messages in creation order.
C12_ListingRespectsOwnership ==
    (listOut.status # 0 /\ listOut.session # "none") =>
        IF chatsTbl[listOut.id].exists /\ chatsTbl[listOut.id].userId = listOut.session
        THEN listOut.status = 200 /\ listOut.messages = GetChatMessages(listOut.id)
        ELSE listOut.status = 404 /\ listOut.messages = << >>

\* C13: every stored message and every cached video references an existing
\* conversation; after a delete no row references the deleted conversation.
C13_NoOrphanRows ==
    /\ \A i \in 1..Len(messagesTbl) : chatsTbl[messagesTbl[i].chatId].exists
    /\ \A i \in 1..Len(videosTbl) : chatsTbl[videosTbl[i].chatId].exists
    /\ (delOut.status = 200 =>
          /\ ~chatsTbl[delOut.id].exists
          /\ RowsOfChat(messagesTbl, delOut.id) = << >>
          /\ RowsOfChat(videosTbl, delOut.id) = << >>)

\* C13 witness: a conversation that had a message and a cached video was
\* deleted.
C13_Witness ==
    /\ delOut.status = 200
    /\ RowsOfChat(delOut.messagesBefore, delOut.id) # << >>
    /\ RowsOfChat(delOut.videosBefore, delOut.id) # << >>

(***************************************************************************)
(* Agent run: runAgentWithTools (src/src/lib/agent/runtime.ts) with the    *)
(* tools of buildAgentTools (src/unnamed/part_020): calendar tools, one    *)
(* image generation tool and the video generation tool.  The planner loop  *)
(* (createAgent) chooses the tool calls; calls of one planner step run     *)
(* concurrently and the loop goes on only when all of them have settled.   *)
(***************************************************************************)
MaxRuns == 2
MaxToolCalls == 2

ImageTool == "openai_generate_image"
VideoTool == "replicate_generate_video"
CalendarTool == "google_calendar_list_events"

\* The tools that carry the `used` field.
GenTools == {ImageTool, VideoTool}
RunTools == GenTools \cup {CalendarTool}

StrDataImage == StrData \o <<34, 38, 26, 32, 30, 63>>        \* "data:image/"

StartsWith(str, prefix) ==
    Len(str) >= Len(prefix) /\ SubSeq(str, 1, Len(prefix)) = prefix

\* The bytes an image API answers with (b64_json).
GeneratedImages == {<<255, 0>>}

\* What a tool call settles with.  kind: "images" (inline data URL in
\* `image`), "imageUrl" (hosted image), "video" (hosted video url), "text",
\* "note" (the 'already used' placeholder), "error" (the tool threw).
ToolResult(kind, image) == [kind |-> kind, image |-> image]

\* Outcomes of the external call of a tool.
ToolOutcomes(tool) ==
    IF tool = ImageTool
    THEN {ToolResult("images", DataUrlFromBase64(Base64Encode(b), StrImagePng)) :
             b \in GeneratedImages}
         \cup {ToolResult("imageUrl", << >>), ToolResult("error", << >>)}
    ELSE IF tool = VideoTool
    THEN {ToolResult("video", << >>), ToolResult("error", << >>)}
    ELSE {ToolResult("text", << >>), ToolResult("error", << >>)}

AGENT_INVOKE_TIMEOUT_MS == 25000

\* afterMs: the time limit that ended the run (0: none did).
NoAgentResult == [returned |-> FALSE, threw |-> "none", finalText |-> "",
                  toolInvocations |-> << >>, images |-> << >>, afterMs |-> 0]

AgentInit ==
    /\ agentPc = "idle"
    /\ runNo = 0
    /\ runChat = FALSE
    /\ toolUsed = [g \in GenTools |-> FALSE]
    /\ apiCalls = [g \in GenTools |-> 0]
    /\ toolCalls = << >>
    /\ agentEvents = << >>
    /\ toolEventsFlag = FALSE
    /\ staleListener = FALSE
    /\ agentResult = NoAgentResult

\* An event handed to emitAgentEvent.  call: the index of the tool call it
\* belongs to (0: none); error: it carries a non-null error text; images:
\* the image references it carries; threw: emitter.emit threw on it (a
\* listener of a cancelled connection failed to enqueue).
AgentEvent(type, call, name, error, images) ==
    [type |-> type, call |-> call, name |-> name, error |-> error, images |-> images,
     threw |-> staleListener]

\* normalizeImageReference(value) against a cache: a data:image/ URL goes
\* through cacheDataUrl and becomes the retrieval path of the new id.
\* ref 0 stands for null; hosted urls are passed through (ref -1).
NormalizeImageReference(value, cache) ==
    IF value = << >> THEN [ref |-> 0, cache |-> cache]
    ELSE IF StartsWith(value, StrDataImage)
    THEN LET r == CacheDataUrlResult(value)
         IN  IF ~r.stored THEN [ref |-> 0, cache |-> cache]
             ELSE [ref |-> Len(cache) + 1, cache |-> Append(cache, r.entry)]
    ELSE [ref |-> -1, cache |-> cache]

\* extractMedia(toolInvocations).images, threading the cache through.
RECURSIVE ExtractMedia(_, _)
ExtractMedia(results, cache) ==
    IF results = << >> THEN [images |-> << >>, cache |-> cache]
    ELSE LET head == results[1]
             n == IF head.kind = "images"
                  THEN NormalizeImageReference(head.image, cache)
                  ELSE [ref |-> 0, cache |-> cache]
             rest == ExtractMedia(Tail(results), n.cache)
         IN  [images |-> (IF n.ref > 0 THEN <<n.ref>> ELSE << >>) \o rest.images,
              cache |-> rest.cache]

\* The client of the run's chat goes away: its stream is cancelled, and
\* cancel() does not find _cleanup, so the listener stays registered
\* (see Cancel).
ClientDisconnects ==
    /\ ~staleListener
    /\ agentPc = "running" /\ runChat
    /\ \A q \in 1..Len(agentEvents) : ~agentEvents[q].threw
    /\ staleListener' = TRUE
    /\ UNCHANGED <<agentPc, runNo, runChat, toolUsed, apiCalls, toolCalls,
                   agentEvents, toolEventsFlag, agentResult, imageCache>>
    /\ UNCHANGED nonAgentVars

\* The next keep-alive tick of the cancelled connection fails to enqueue
\* and runs cleanup (see KeepAliveTick).
KeepAliveCleans ==
    /\ staleListener
    /\ staleListener' = FALSE
    /\ UNCHANGED <<agentPc, runNo, runChat, toolUsed, apiCalls, toolCalls,
                   agentEvents, toolEventsFlag, agentResult, imageCache>>
    /\ UNCHANGED nonAgentVars

\* runAgentWithTools, lines 64-90: fresh tools, instrumented when a chat id
\* was given, and the planner is invoked.
AgentStart(hasChatId) ==
    /\ agentPc \in {"idle", "done", "failed"}
    /\ ~staleListener
    /\ runNo < MaxRuns
    /\ \A i \in 1..Len(toolCalls) : toolCalls[i].settled
    /\ runNo' = runNo + 1
    /\ runChat' = hasChatId
    /\ agentPc' = "running"
    /\ toolUsed' = [g \in GenTools |-> FALSE]
    /\ apiCalls' = [g \in GenTools |-> 0]
    /\ toolCalls' = << >>
    /\ agentEvents' = << >>
    /\ toolEventsFlag' = FALSE
    /\ agentResult' = NoAgentResult
    /\ UNCHANGED <<imageCache, staleListener>>
    /\ UNCHANGED nonAgentVars

\* A guard that never answers with the placeholder.
GuardAnswersNever(tool) == FALSE

\* `if (this.used)` of a generation tool's _call.
GuardAnswers(tool) == tool \in GenTools /\ toolUsed[tool]

\* The planner calls a tool.  The instrumented invoke publishes tool-start
\* (and rejects at once when that throws: the tool is not called); then
\* _call runs up to its first await: the guard is read and set, and the
\* external request goes out.
\* A call record: adapter is "skipped" (never called), "pending",
\* "returned" or "threw"; outcome is what the tool settled with; result
\* is what the planner gets for the call.
ToolInvoke(tool) ==
    /\ agentPc = "running"
    /\ Len(toolCalls) < MaxToolCalls
    /\ LET i == Len(toolCalls) + 1
           emitThrew == runChat /\ staleListener
           blocked == GuardAnswers(tool)
       IN  /\ agentEvents' = IF runChat
                             THEN Append(agentEvents,
                                         AgentEvent("tool-start", i, tool, FALSE, << >>))
                             ELSE agentEvents
           /\ IF emitThrew
              THEN /\ toolCalls' = Append(toolCalls,
                                     [tool |-> tool, placeholder |-> FALSE, settled |-> TRUE,
                                      adapter |-> "skipped",
                                      outcome |-> ToolResult("none", << >>),
                                      result |-> ToolResult("error", << >>)])
                   /\ UNCHANGED <<toolUsed, apiCalls>>
              ELSE /\ toolCalls' = Append(toolCalls,
                                     [tool |-> tool, placeholder |-> blocked,
                                      settled |-> FALSE, adapter |-> "pending",
                                      outcome |-> ToolResult("none", << >>),
                                      result |-> ToolResult("none", << >>)])
                   /\ IF tool \in GenTools /\ ~blocked
                      THEN /\ toolUsed' = [toolUsed EXCEPT ![tool] = TRUE]
                           /\ apiCalls' = [apiCalls EXCEPT ![tool] = @ + 1]
                      ELSE UNCHANGED <<toolUsed, apiCalls>>
    /\ UNCHANGED <<agentPc, runNo, runChat, toolEventsFlag, staleListener, agentResult,
                   imageCache>>
    /\ UNCHANGED nonAgentVars

\* A catch branch that publishes the result without the error text.
ToolErrorEventDropsError(i, tool) ==
    AgentEvent("tool-result", i, tool, FALSE, << >>)

\* The tool-result event of the catch branch (lines 336-347).
ToolErrorEvent(i, tool) ==
    AgentEvent("tool-result", i, tool, TRUE, << >>)

\* A tool call settles: the tool returns or throws.  Without a chat id the
\* planner gets the tool's outcome.  With one, the instrumented invoke
\* publishes tool-result with the media extracted from the result and
\* sets the flag; when the tool threw, or when that publish throws, the
\* catch branch publishes tool-result with the error text, sets the flag
\* and rethrows; when the publish of the catch branch throws, the flag is
\* not set.  A call can settle after the run has timed out.
ToolSettle(i, outcome) ==
    /\ agentPc \in {"running", "failed"}
    /\ i \in 1..Len(toolCalls)
    /\ ~toolCalls[i].settled
    /\ IF toolCalls[i].placeholder
       THEN outcome = ToolResult("note", << >>)
       ELSE outcome \in ToolOutcomes(toolCalls[i].tool)
    /\ LET tool == toolCalls[i].tool
           returned == outcome.kind # "error"
           media == IF runChat /\ returned
                    THEN ExtractMedia(<<outcome>>, imageCache)
                    ELSE [images |-> << >>, cache |-> imageCache]
           okEvent == AgentEvent("tool-result", i, tool, FALSE, media.images)
           emitThrew == runChat /\ staleListener
           rejected == ~returned \/ emitThrew
       IN  /\ toolCalls' = [toolCalls EXCEPT
                              ![i].settled = TRUE,
                              ![i].adapter = IF returned THEN "returned" ELSE "threw",
                              ![i].outcome = outcome,
                              ![i].result = IF rejected THEN ToolResult("error", << >>)
                                            ELSE outcome]
           /\ imageCache' = media.cache
           /\ agentEvents' =
                IF ~runChat THEN agentEvents
                ELSE agentEvents
                     \o (IF returned THEN <<okEvent>> ELSE << >>)
                     \o (IF rejected THEN <<ToolErrorEvent(i, tool)>> ELSE << >>)
           /\ toolEventsFlag' = (toolEventsFlag \/ (runChat /\ ~emitThrew))
    /\ UNCHANGED <<agentPc, runNo, runChat, toolUsed, apiCalls,
                   staleListener, agentResult>>
    /\ UNCHANGED nonAgentVars

\* extractToolInvocations: one log entry per tool message, with the name
\* of the call, the text of the tool message and, for a tool message of
\* status 'error', the error.
ExtractToolInvocations(calls) ==
    [i \in 1..Len(calls) |->
        [name |-> calls[i].tool, result |-> calls[i].result,
         error |-> calls[i].result.kind = "error"]]

\* emitAgentEvents, lines 283-285: the final event, for a non-empty text.
FinalEvents(finalText) ==
    IF finalText # "" THEN <<AgentEvent("final", 0, "", FALSE, << >>)>> ELSE << >>

\* emitAgentEvents: an aggregated tool-result when no per-tool event was
\* published and the log is not empty, then the final event.
EmitAgentEvents(toolInvocations, finalText, toolEventsEmitted, images) ==
    (IF ~toolEventsEmitted /\ Len(toolInvocations) > 0
     THEN <<AgentEvent("tool-result", 0, toolInvocations[Len(toolInvocations)].name,
                       FALSE, images)>>
     ELSE << >>)
    \o FinalEvents(finalText)

\* The planner loop ends (lines 92-126): without an assistant message the
\* run throws; otherwise the log is extracted and the events are published
\* (the first publish that throws ends the run with that error), the media
\* of the log is extracted and the result returned.
PlannerFinish(final) ==
    /\ agentPc = "running"
    /\ \A i \in 1..Len(toolCalls) : toolCalls[i].settled
    /\ IF final = "none"
       THEN /\ agentPc' = "failed"
            /\ agentResult' = [NoAgentResult EXCEPT !.threw = "no-assistant-message"]
            /\ UNCHANGED <<agentEvents, imageCache>>
       ELSE LET log == ExtractToolInvocations(toolCalls)
                results == [i \in 1..Len(log) |-> log[i].result]
                aggregated == runChat /\ ~toolEventsFlag /\ Len(log) > 0
                forEvent == IF aggregated THEN ExtractMedia(results, imageCache)
                            ELSE [images |-> << >>, cache |-> imageCache]
                events == IF runChat
                          THEN EmitAgentEvents(log, final, toolEventsFlag, forEvent.images)
                          ELSE << >>
                emitThrew == staleListener /\ Len(events) > 0
                media == ExtractMedia(results, forEvent.cache)
            IN  IF emitThrew
                THEN /\ agentPc' = "failed"
                     /\ agentEvents' = Append(agentEvents, events[1])
                     /\ imageCache' = forEvent.cache
                     /\ agentResult' = [NoAgentResult EXCEPT !.threw = "publish-error"]
                ELSE /\ agentPc' = "done"
                     /\ agentEvents' = agentEvents \o events
                     /\ imageCache' = media.cache
                     /\ agentResult' = [returned |-> TRUE, threw |-> "none",
                                        finalText |-> final,
                                        toolInvocations |-> log, images |-> media.images,
                                        afterMs |-> 0]
    /\ UNCHANGED <<runNo, runChat, toolUsed, apiCalls, toolCalls,
                   toolEventsFlag, staleListener>>
    /\ UNCHANGED nonAgentVars

\* withTimeout (lines 129-143): the invocation is abandoned after
\* AGENT_INVOKE_TIMEOUT_MS; tool calls in flight are not cancelled.
\* A time limit that hands on the log gathered so far.
TimeoutResultPartial ==
    [NoAgentResult EXCEPT !.threw = "timeout", !.afterMs = AGENT_INVOKE_TIMEOUT_MS,
                          !.toolInvocations = ExtractToolInvocations(toolCalls)]

\* Lines 132-134 and 92-96: the timer rejects with the timeout error and
\* the await in runAgentWithTools throws it; nothing is returned.
TimeoutResult ==
    [NoAgentResult EXCEPT !.threw = "timeout", !.afterMs = AGENT_INVOKE_TIMEOUT_MS]

AgentTimeout ==
    /\ agentPc = "running"
    /\ agentPc' = "failed"
    /\ agentResult' = TimeoutResult
    /\ UNCHANGED <<runNo, runChat, toolUsed, apiCalls, toolCalls,
                   agentEvents, toolEventsFlag, staleListener, imageCache>>
    /\ UNCHANGED nonAgentVars

FinalTexts == {"text", "", "none"}

AllToolResults ==
    UNION {ToolOutcomes(tool) : tool \in RunTools} \cup {ToolResult("note", << >>)}

AgentNext ==
    \/ \E h \in BOOLEAN : AgentStart(h)
    \/ \E tool \in RunTools : ToolInvoke(tool)
    \/ \E i \in 1..MaxToolCalls, r \in AllToolResults : ToolSettle(i, r)
    \/ \E f \in FinalTexts : PlannerFinish(f)
    \/ AgentTimeout
    \/ ClientDisconnects
    \/ KeepAliveCleans

(***************************************************************************)
(* Properties of the agent run.                                            *)
(***************************************************************************)
CallIds == 1..Len(toolCalls)

\* positions of the events of a kind that belong to a call
EventsOf(type, call) ==
    {q \in 1..Len(agentEvents) : agentEvents[q].type = type /\ agentEvents[q].call = call}

FinalPositions == {q \in 1..Len(agentEvents) : agentEvents[q].type = "final"}

\* the calls of this run that reached the tool's _call
AdapterCalls == {i \in CallIds : toolCalls[i].adapter # "skipped"}

\* C14: within one run each generation tool calls its external API at most
\* once, whatever the order and overlap of the tool calls; every later call
\* of the same tool answers with the 'already used' placeholder without an
\* external call; a new run starts with the guard open again.
C14_SingleUseGuard ==
    /\ \A g \in GenTools :
          /\ apiCalls[g] <= 1
          /\ apiCalls[g] =
               Cardinality({i \in AdapterCalls :
                               toolCalls[i].tool = g /\ ~toolCalls[i].placeholder})
    /\ \A i \in AdapterCalls :
          /\ (toolCalls[i].tool \in GenTools /\
                (\E j \in AdapterCalls : j < i /\ toolCalls[j].tool = toolCalls[i].tool))
               => toolCalls[i].placeholder
          /\ (toolCalls[i].placeholder /\ toolCalls[i].settled)
               => (toolCalls[i].adapter = "returned" /\ toolCalls[i].outcome.kind = "note")
          /\ toolCalls[i].tool \notin GenTools => ~toolCalls[i].placeholder
    /\ (agentPc = "running" /\ toolCalls = << >>) => \A g \in GenTools : ~toolUsed[g]

\* C14 witness: in the second run the image tool was called twice while
\* its first call was still in flight; the second call got the placeholder,
\* and the first call went out although the first run had generated an
\* image (which is in the cache).
C14_Witness ==
    /\ runNo = 2 /\ Len(toolCalls) = 2
    /\ toolCalls[1].tool = ImageTool /\ toolCalls[2].tool = ImageTool
    /\ ~toolCalls[1].settled
    /\ toolCalls[2].placeholder /\ toolCalls[2].settled
    /\ toolCalls[2].outcome.kind = "note"
    /\ apiCalls[ImageTool] = 1 /\ Len(imageCache) >= 1

\* C15: in a run with a chat id whose tool calls all returned and which
\* ended with a non-empty final text, the events of every tool call are
\* its tool-start, then its tool-result, and exactly one final event
\* follows all of them; the invocation log has one entry per call, with
\* the name of the call and no error.  No event is published after a
\* final event.
C15_EventOrder ==
    /\ \A q \in FinalPositions : q = Len(agentEvents)
    /\ (agentPc = "done" /\ runChat /\ agentResult.finalText # ""
          /\ \A i \in CallIds : toolCalls[i].adapter = "returned") =>
          /\ Cardinality(FinalPositions) = 1
          /\ Len(agentResult.toolInvocations) = Len(toolCalls)
          /\ \A i \in CallIds :
                /\ Cardinality(EventsOf("tool-start", i)) = 1
                /\ Cardinality(EventsOf("tool-result", i)) = 1
                /\ \A p \in EventsOf("tool-start", i), q \in EventsOf("tool-result", i) :
                      p < q /\ q < Len(agentEvents)
                /\ agentResult.toolInvocations[i].name = toolCalls[i].tool
                /\ agentResult.toolInvocations[i].name # ""
                /\ ~agentResult.toolInvocations[i].error

C17_LogReferencesCache ==
    agentResult.returned =>
        \A i \in CallIds :
            toolCalls[i].outcome.kind = "images" =>
                /\ agentResult.toolInvocations[i].result.image = << >>
                /\ \E k \in 1..Len(agentResult.images) :
                      LET got == ImagesGET(agentResult.images[k])
                      IN  /\ got.status = 200
                          /\ got.contentType = StrImagePng
                          /\ DataUrlFromBase64(Base64Encode(got.body), StrImagePng)
                                = toolCalls[i].outcome.image

\* C23: in a run with a chat id, every call of an instrumented tool has
\* exactly one tool-start event and reaches the adapter; once it has
\* settled it has exactly one tool-result event, published after its
\* tool-start, and the planner gets what the adapter returned or threw;
\* before it has settled it has no tool-result event.
C23_ToolInstrumentation ==
    runChat =>
        \A i \in CallIds :
            /\ Cardinality(EventsOf("tool-start", i)) = 1
            /\ toolCalls[i].adapter # "skipped"
            /\ \A p \in EventsOf("tool-start", i), q \in EventsOf("tool-result", i) : p < q
            /\ IF toolCalls[i].settled
               THEN /\ Cardinality(EventsOf("tool-result", i)) = 1
                    /\ toolCalls[i].result = toolCalls[i].outcome
               ELSE EventsOf("tool-result", i) = {}

\* positions of the aggregated tool-result events (published by
\* emitAgentEvents for the whole log, not for one call)
AggregatedPositions == EventsOf("tool-result", 0)

\* positions of the events published by the instrumented tools
PerToolPositions == {q \in 1..Len(agentEvents) : agentEvents[q].call # 0}

\* C24: an aggregated tool-result event is published only for a non-empty
\* log and only in a run without per-tool events; no call of a run has
\* both a tool-result event of its own and an aggregated tool-result.
C24_NoDoublePublishing ==
    /\ AggregatedPositions # {} => (Len(toolCalls) > 0 /\ PerToolPositions = {})
    /\ \A i \in CallIds : ~(EventsOf("tool-result", i) # {} /\ AggregatedPositions # {})

\* C25: a run ended by the time limit (25 s) has thrown the timeout error:
\* nothing is returned (no final text, no log, no images) and no final
\* event is published for it, then or later; a run whose planner completed
\* keeps its result until the next run starts, the timer cannot fail it.
C25_TimeoutIsHardFailure ==
    /\ [](agentResult.threw = "timeout" =>
             /\ agentPc = "failed"
             /\ agentResult.afterMs = 25000
             /\ ~agentResult.returned
             /\ agentResult.finalText = ""
             /\ agentResult.toolInvocations = << >>
             /\ agentResult.images = << >>
             /\ FinalPositions = {})
    /\ [](agentPc = "done" => (agentResult.returned /\ agentResult.threw = "none"))
    /\ [][(agentPc = "done" /\ runNo' = runNo)
             => (agentPc' = "done" /\ agentResult' = agentResult)]_vars

\* C25 witness: the run with a chat id timed out while a tool call was in
\* flight; the call settled afterwards and published its tool-result, and
\* there is still no result and no final event.
C25_Witness ==
    /\ agentResult.threw = "timeout" /\ runChat
    /\ Len(toolCalls) = 1 /\ toolCalls[1].settled /\ toolCalls[1].adapter = "returned"
    /\ Len(agentEvents) = 2 /\ agentEvents[2].type = "tool-result"
    /\ ~agentResult.returned /\ FinalPositions = {}

(***************************************************************************)
(* Media proxy: GET with a url parameter (src/unnamed/part_008).           *)
(***************************************************************************)
MaxProxyCalls == 2

ALLOWED_HOSTS == <<"replicate.delivery", "replicate.com">>

\* String.prototype.endsWith
EndsWith(str, suffix) ==
    /\ Len(str) >= Len(suffix)
    /\ SubSeq(str, Len(str) - Len(suffix) + 1, Len(str)) = suffix

\* position of the first occurrence of `sub` in `str`, 0 when there is none
IndexOf(str, sub) ==
    LET hits == {i \in 1..(Len(str) - Len(sub) + 1) : SubSeq(str, i, i + Len(sub) - 1) = sub}
    IN  IF hits = {} THEN 0 ELSE CHOOSE i \in hits : \A j \in hits : i <= j

\* position of the last occurrence of `sub` in `str`, 0 when there is none
LastIndexOf(str, sub) ==
    LET hits == {i \in 1..(Len(str) - Len(sub) + 1) : SubSeq(str, i, i + Len(sub) - 1) = sub}
    IN  IF hits = {} THEN 0 ELSE CHOOSE i \in hits : \A j \in hits : i >= j

\* the part of `str` before the first of the delimiters, all of it when
\* none occurs
UpTo(str, delimiters) ==
    LET cuts == {IndexOf(str, d) : d \in delimiters} \ {0}
    IN  IF cuts = {} THEN str
        ELSE SubSeq(str, 1, (CHOOSE i \in cuts : \A j \in cuts : i <= j) - 1)

UpperToLower ==
    [A |-> "a", B |-> "b", C |-> "c", D |-> "d", E |-> "e", F |-> "f", G |-> "g",
     H |-> "h", I |-> "i", J |-> "j", K |-> "k", L |-> "l", M |-> "m", N |-> "n",
     O |-> "o", P |-> "p", Q |-> "q", R |-> "r", S |-> "s", T |-> "t", U |-> "u",
     V |-> "v", W |-> "w", X |-> "x", Y |-> "y", Z |-> "z"]

RECURSIVE ToLowerCase(_)
ToLowerCase(str) ==
    IF str = "" THEN ""
    ELSE LET c == SubSeq(str, 1, 1)
         IN  (IF c \in DOMAIN UpperToLower THEN UpperToLower[c] ELSE c)
                \o ToLowerCase(SubSeq(str, 2, Len(str)))

\* new URL(rawUrl) for an absolute http(s) URL: scheme "://" authority and
\* the rest; the hostname is the authority without its userinfo and port,
\* in lower case.  Anything else does not parse.
ParseUrl(rawUrl) ==
    LET sep == IndexOf(rawUrl, "://")
        scheme == ToLowerCase(SubSeq(rawUrl, 1, sep - 1))
        afterScheme == SubSeq(rawUrl, sep + 3, Len(rawUrl))
        authority == UpTo(afterScheme, {"/", "?", "#"})
        at == LastIndexOf(authority, "@")
        hostPort == SubSeq(authority, at + 1, Len(authority))
        hostname == ToLowerCase(UpTo(hostPort, {":"}))
    IN  IF sep = 0 \/ scheme \notin {"http", "https"} \/ hostname = ""
        THEN [ok |-> FALSE, hostname |-> ""]
        ELSE [ok |-> TRUE, hostname |-> hostname]

\* An allow-list test that forgets the dot before the allowed host.
HostAllowedNoDot(hostname) ==
    \E k \in 1..Len(ALLOWED_HOSTS) :
        hostname = ALLOWED_HOSTS[k] \/ EndsWith(hostname, ALLOWED_HOSTS[k])

\* ALLOWED_HOSTS.some(...)
HostAllowed(hostname) ==
    \E k \in 1..Len(ALLOWED_HOSTS) :
        hostname = ALLOWED_HOSTS[k] \/ EndsWith(hostname, "." \o ALLOWED_HOSTS[k])

\* The values of the url parameter; present = FALSE: there is none.
RawUrls ==
    {"", "not a url", "/v.mp4",
     "https://replicate.delivery/v.mp4",
     "https://replicate.com/v.mp4",
     "https://cdn.replicate.delivery/v.mp4",
     "https://REPLICATE.COM/v.mp4",
     "https://replicate.com:8443/v.mp4",
     "https://evilreplicate.com/v.mp4",
     "https://replicate.com.evil.io/v.mp4",
     "https://replicate.com@evil.io/v.mp4",
     "https://evil.io/?u=https://replicate.com",
     "https://evil.io/.replicate.com",
     "http://evil.io:80#.replicate.delivery"}

UrlParams ==
    {[present |-> FALSE, value |-> ""]} \cup {[present |-> TRUE, value |-> r] : r \in RawUrls}

\* What the upstream fetch does: "ok" with a body, "notOk", "noBody", or
\* it rejects ("throws").  contentType "null": no such header.
UpstreamOutcomes ==
    {[kind |-> "ok", contentType |-> "video/webm"],
     [kind |-> "ok", contentType |-> "null"],
     [kind |-> "notOk", contentType |-> "null"],
     [kind |-> "noBody", contentType |-> "null"],
     [kind |-> "throws", contentType |-> "null"]}

NoProxyOut == [answered |-> FALSE, url |-> [present |-> FALSE, value |-> ""],
               status |-> 0, error |-> "", contentType |-> ""]

ProxyInit ==
    /\ proxyCalls = 0
    /\ proxyOut = NoProxyOut
    /\ upstreamLog = << >>

ProxyResponse(url, status, error, contentType) ==
    [answered |-> TRUE, url |-> url, status |-> status, error |-> error,
     contentType |-> contentType]

\* GET /api/media/proxy?url=...
ProxyGET(url, upstream) ==
    /\ proxyCalls < MaxProxyCalls
    /\ proxyCalls' = proxyCalls + 1
    /\ LET target == ParseUrl(url.value)
       IN  IF ~url.present \/ url.value = ""
           THEN /\ proxyOut' = ProxyResponse(url, 400, "Missing url", "application/json")
                /\ UNCHANGED upstreamLog
           ELSE IF ~target.ok
           THEN /\ proxyOut' = ProxyResponse(url, 400, "Invalid url", "application/json")
                /\ UNCHANGED upstreamLog
           ELSE IF ~HostAllowed(target.hostname)
           THEN /\ proxyOut' = ProxyResponse(url, 403, "Host not allowed", "application/json")
                /\ UNCHANGED upstreamLog
           ELSE /\ upstreamLog' = Append(upstreamLog, [hostname |-> target.hostname,
                                                       url |-> url.value])
                /\ proxyOut' =
                      IF upstream.kind = "throws"
                      THEN ProxyResponse(url, 500, "", "")
                      ELSE IF upstream.kind # "ok"
                      THEN ProxyResponse(url, 502, "Upstream fetch failed", "application/json")
                      ELSE ProxyResponse(url, 200, "",
                                         IF upstream.contentType # "null"
                                         THEN upstream.contentType ELSE "video/mp4")
    /\ UNCHANGED nonProxyVars

ProxyNext == \E url \in UrlParams, upstream \in UpstreamOutcomes : ProxyGET(url, upstream)

(***************************************************************************)
(* Properties of the media proxy.                                          *)
(***************************************************************************)
\* the hostname is an allowed host, or labels followed by "." and one
ListedOrSubdomain(hostname) ==
    \E k \in 1..Len(ALLOWED_HOSTS) :
        \/ hostname = ALLOWED_HOSTS[k]
        \/ \E n \in 1..Len(hostname) :
              hostname = SubSeq(hostname, 1, n) \o "." \o ALLOWED_HOSTS[k]

\* the url parameter of a request names a host of the allow-list
NamesAllowedHost(url) ==
    /\ url.present
    /\ ParseUrl(url.value).ok
    /\ ListedOrSubdomain(ParseUrl(url.value).hostname)

\* C20: every upstream request goes to a host that is in the allow-list or
\* a subdomain of one; a request whose url parameter is missing, does not
\* parse or names any other host is answered 400 or 403 and sends nothing
\* upstream; a request that sends something upstream sends one request, to
\* the host its url parameter names.
C20_ProxyAllowList ==
    /\ [](\A k \in 1..Len(upstreamLog) : ListedOrSubdomain(upstreamLog[k].hostname))
    /\ [][proxyCalls' # proxyCalls =>
            /\ ~NamesAllowedHost(proxyOut'.url) =>
                  /\ upstreamLog' = upstreamLog
                  /\ proxyOut'.status \in {400, 403}
            /\ upstreamLog' # upstreamLog =>
                  /\ NamesAllowedHost(proxyOut'.url)
                  /\ Len(upstreamLog') = Len(upstreamLog) + 1
                  /\ upstreamLog'[Len(upstreamLog')].hostname
                        = ParseUrl(proxyOut'.url.value).hostname
       ]_vars

\* C20 witness: a request for a subdomain of an allowed host went
\* upstream, and a later request for a host that only ends in the letters
\* of an allowed host was answered 403 without an upstream request.
C20_Witness ==
    /\ Len(upstreamLog) = 1
    /\ upstreamLog[1].hostname = "cdn.replicate.delivery"
    /\ proxyCalls = 2
    /\ proxyOut.url.value = "https://evilreplicate.com/v.mp4"
    /\ proxyOut.status = 403

(***************************************************************************)
(* Google credentials: getValidGoogleAccessToken and                       *)
(* refreshGoogleAccessToken (src/src/lib/google/oauth.ts), as they are     *)
(* used by the calendar list tool (src/src/lib/agent/tools/calendar.ts,    *)
(* src/src/lib/google/calendar.ts).  One call is one step: the database    *)
(* works, and Date.now() does not advance within a call.                   *)
(***************************************************************************)
MaxOAuthCalls == 2
MaxTicks == 2

TOKEN_REFRESH_BUFFER_MS == 120000

\* the step of the clock
TickMs == 60 * 1000

\* a null Date
NullDate == -1

OAuthUsers == {"u1", "u2"}
GoogleEnvNames == {"GOOGLE_CLIENT_ID", "GOOGLE_CLIENT_SECRET"}

\* GoogleTokenRow; found = FALSE stands for no record with the id.
GoogleTokenRow(found, accessToken, refreshToken, expiresAt, scopes) ==
    [found |-> found, googleAccessToken |-> accessToken,
     googleRefreshToken |-> refreshToken, googleTokenExpiresAt |-> expiresAt,
     googleScopes |-> scopes]

NoGoogleRow == GoogleTokenRow(FALSE, "null", "null", NullDate, "null")

\* The rows a user can have before the first call: no record, a record
\* without Google access, or tokens stored at sign-in.
StoredRows ==
    {NoGoogleRow} \cup
    {GoogleTokenRow(TRUE, a, r, e, "s0") :
        a \in {"null", "t0"}, r \in {"null", "r0"},
        e \in {NullDate} \cup {k * TickMs : k \in 1..3}}

GoogleCredentials(accessToken, refreshToken, expiresAt, scopes) ==
    [accessToken |-> accessToken, refreshToken |-> refreshToken,
     expiresAt |-> expiresAt, scopes |-> scopes]

NoCredentials == GoogleCredentials("null", "null", NullDate, "null")

GoogleAuthError(message) == [name |-> "GoogleAuthError", message |-> message]
PlainError(message) == [name |-> "Error", message |-> message]
\* a thrown value that is not an Error
NonError == [name |-> "nonError", message |-> ""]
NoError == [name |-> "none", message |-> ""]

\* What a call of this module gives back.  cause names why it threw:
\* "refresh" (a refresh was needed and could not be done), "auth" (another
\* GoogleAuthError), "network" (the request to the provider failed).
Returned(creds, tbl, contacted) ==
    [ok |-> TRUE, creds |-> creds, error |-> NoError, cause |-> "none",
     tbl |-> tbl, contacted |-> contacted]
Threw(error, cause, tbl, contacted) ==
    [ok |-> FALSE, creds |-> NoCredentials, error |-> error, cause |-> cause,
     tbl |-> tbl, contacted |-> contacted]

\* Responses of the token endpoint.  "undefined" and 0 stand for fields the
\* body does not have; kind "network" is a fetch that rejects.
ProviderResponses ==
    {[kind |-> "rejected", access_token |-> "undefined", expires_in |-> 0,
      refresh_token |-> "undefined", scope |-> "undefined", errorText |-> "invalid_grant"],
     [kind |-> "network", access_token |-> "undefined", expires_in |-> 0,
      refresh_token |-> "undefined", scope |-> "undefined", errorText |-> "fetch failed"]}
    \cup
    {[kind |-> "ok", access_token |-> IF rs[1] = "undefined" THEN "t1" ELSE "t2",
      expires_in |-> e, refresh_token |-> rs[1], scope |-> rs[2], errorText |-> ""] :
        e \in {0, 60, 3600},
        rs \in {<<"undefined", "undefined">>, <<"r1", "s1">>}}

OAuthInit ==
    /\ usersTbl \in [OAuthUsers -> StoredRows]
    /\ usersTbl["u2"] = GoogleTokenRow(TRUE, "t0", "r0", 3 * TickMs, "s0")
    /\ now = 0
    /\ googleEnv \in SUBSET GoogleEnvNames
    /\ googleEnv # {}
    /\ providerCalls = 0
    /\ oauthCalls = 0
    /\ tokenOut = [user |-> "none", kind |-> "none", creds |-> NoCredentials,
                   error |-> NoError]
    /\ toolOut = [user |-> "none", kind |-> "none", text |-> "", error |-> NoError,
                  cause |-> "none"]

GetGoogleCredentialsForUser(tbl, userId) ==
    IF ~tbl[userId].found
    THEN Threw(GoogleAuthError("User record not found."), "auth", tbl, FALSE)
    ELSE Returned(GoogleCredentials(tbl[userId].googleAccessToken,
                                    tbl[userId].googleRefreshToken,
                                    tbl[userId].googleTokenExpiresAt,
                                    tbl[userId].googleScopes), tbl, FALSE)

\* A tokenIsExpiringSoon that lets a token exactly at the threshold pass.
TokenIsExpiringSoonStrict(expiresAt, t) ==
    IF expiresAt = NullDate THEN FALSE
    ELSE expiresAt < t + TOKEN_REFRESH_BUFFER_MS

TokenIsExpiringSoon(expiresAt, t) ==
    IF expiresAt = NullDate THEN FALSE
    ELSE expiresAt <= t + TOKEN_REFRESH_BUFFER_MS

RefreshGoogleAccessToken(tbl, userId, t, envSet, response) ==
    LET read == GetGoogleCredentialsForUser(tbl, userId)
        credentials == read.creds
        expiresAt == IF response.expires_in # 0
                     THEN t + response.expires_in * 1000
                     ELSE NullDate
        nextRefreshToken == IF response.refresh_token # "undefined"
                            THEN response.refresh_token
                            ELSE credentials.refreshToken
        nextScopes == IF response.scope # "undefined"
                      THEN response.scope
                      ELSE credentials.scopes
    IN  IF ~read.ok THEN read
        ELSE IF credentials.refreshToken = "null"
        THEN Threw(GoogleAuthError(
                     "Google account is missing a refresh token. Please reconnect."),
                   "refresh", tbl, FALSE)
        ELSE IF "GOOGLE_CLIENT_ID" \notin envSet
        THEN Threw(GoogleAuthError("GOOGLE_CLIENT_ID is not configured."),
                   "auth", tbl, FALSE)
        ELSE IF "GOOGLE_CLIENT_SECRET" \notin envSet
        THEN Threw(GoogleAuthError("GOOGLE_CLIENT_SECRET is not configured."),
                   "auth", tbl, FALSE)
        ELSE IF response.kind = "network"
        THEN Threw([name |-> "TypeError", message |-> response.errorText],
                   "network", tbl, TRUE)
        ELSE IF response.kind = "rejected"
        THEN Threw(GoogleAuthError("Failed to refresh Google token: " \o response.errorText),
                   "refresh", tbl, TRUE)
        ELSE Returned(GoogleCredentials(response.access_token, nextRefreshToken,
                                        expiresAt, nextScopes),
                      [tbl EXCEPT ![userId] =
                          GoogleTokenRow(TRUE, response.access_token, nextRefreshToken,
                                         expiresAt, nextScopes)],
                      TRUE)

GetValidGoogleAccessToken(tbl, userId, t, envSet, response) ==
    LET read == GetGoogleCredentialsForUser(tbl, userId)
    IN  IF ~read.ok THEN read
        ELSE IF read.creds.accessToken = "null"
        THEN Threw(GoogleAuthError(
                     "Google Calendar access is not configured for this account."),
                   "auth", tbl, FALSE)
        ELSE IF ~TokenIsExpiringSoon(read.creds.expiresAt, t)
        THEN read
        ELSE RefreshGoogleAccessToken(tbl, userId, t, envSet, response)

\* getCalendarClient: the credentials, or why there is no client.
GetCalendarClient(tbl, userId, t, envSet, response) ==
    LET got == GetValidGoogleAccessToken(tbl, userId, t, envSet, response)
    IN  IF ~got.ok THEN got
        ELSE IF got.creds.accessToken = "null"
        THEN Threw(GoogleAuthError("Missing Google access token."), "auth",
                   got.tbl, got.contacted)
        ELSE got

\* Outcomes of client.events.list.
CalendarApiOutcomes ==
    {[kind |-> "events", error |-> NoError],
     [kind |-> "empty", error |-> NoError],
     [kind |-> "error", error |-> PlainError("Invalid Credentials")],
     [kind |-> "error", error |-> NonError]}

\* A catch that surfaces the same text for every failure.
ListToolCatchGeneric(error) ==
    PlainError("Unable to list calendar events: Unknown error.")

\* The catch of ListCalendarEventsTool._call.
ListToolCatch(error) ==
    PlainError("Unable to list calendar events: " \o
               (IF error.name # "nonError" THEN error.message ELSE "Unknown error."))

\* the clock advances
ClockTick ==
    /\ now < MaxTicks * TickMs
    /\ now' = now + TickMs
    /\ UNCHANGED <<usersTbl, googleEnv, providerCalls, oauthCalls, tokenOut,
                   toolOut, nonOAuthVars>>

\* getValidGoogleAccessToken(userId), called on its own
GetValidToken(userId, response) ==
    /\ oauthCalls < MaxOAuthCalls
    /\ LET got == GetValidGoogleAccessToken(usersTbl, userId, now, googleEnv, response)
       IN  /\ usersTbl' = got.tbl
           /\ providerCalls' = providerCalls + (IF got.contacted THEN 1 ELSE 0)
           /\ tokenOut' = [user |-> userId,
                           kind |-> IF got.ok THEN "creds" ELSE "threw",
                           creds |-> got.creds, error |-> got.error]
    /\ oauthCalls' = oauthCalls + 1
    /\ UNCHANGED <<now, googleEnv, toolOut, nonOAuthVars>>

\* ListCalendarEventsTool._call of the user's tool instance
ListCalendarEventsCall(userId, response, api) ==
    /\ oauthCalls < MaxOAuthCalls
    /\ LET client == GetCalendarClient(usersTbl, userId, now, googleEnv, response)
           thrown == IF ~client.ok THEN client.error ELSE api.error
           cause == IF ~client.ok THEN client.cause
                    ELSE IF api.error.name = "nonError" THEN "nonError" ELSE "api"
           failed == ~client.ok \/ api.kind = "error"
           surfacedError == ListToolCatch(thrown)
       IN  /\ usersTbl' = client.tbl
           /\ providerCalls' = providerCalls + (IF client.contacted THEN 1 ELSE 0)
           /\ tokenOut' = [user |-> userId,
                           kind |-> IF client.ok THEN "creds" ELSE "threw",
                           creds |-> client.creds, error |-> client.error]
           /\ toolOut' =
                IF failed
                THEN [user |-> userId, kind |-> "threw", text |-> "",
                      error |-> surfacedError, cause |-> cause]
                ELSE [user |-> userId, kind |-> "returned",
                      text |-> IF api.kind = "empty"
                               THEN "No events found for the requested window."
                               ELSE "events",
                      error |-> NoError, cause |-> "none"]
    /\ oauthCalls' = oauthCalls + 1
    /\ UNCHANGED <<now, googleEnv, nonOAuthVars>>

OAuthNext ==
    \/ ClockTick
    \/ \E u \in OAuthUsers, response \in ProviderResponses : GetValidToken(u, response)
    \/ \E u \in OAuthUsers, response \in ProviderResponses, api \in CalendarApiOutcomes :
          ListCalendarEventsCall(u, response, api)

(***************************************************************************)
(* Properties of the Google credentials.                                   *)
(***************************************************************************)
\* the row of the user of the call that is being made
CallerRow == usersTbl[tokenOut'.user]

\* the call being made finds an access token whose expiry is known
CallerHasToken ==
    /\ CallerRow.found
    /\ CallerRow.googleAccessToken # "null"
    /\ CallerRow.googleTokenExpiresAt # NullDate

\* C18: a call of getValidGoogleAccessToken that finds a token whose
\* expiry is more than the 2-minute buffer away returns the stored
\* credentials, sends nothing to the provider and writes nothing; a call
\* that finds a token within the buffer of its expiry, or past it, and has
\* what a refresh needs sends one request to the provider, and when it
\* returns, the access token and expiry it returns are the provider's and
\* are the ones now stored in the record of the user, every other record
\* being untouched.
C18_TokenRefresh ==
    [][oauthCalls' # oauthCalls =>
        /\ (CallerHasToken /\
            CallerRow.googleTokenExpiresAt > now + TOKEN_REFRESH_BUFFER_MS) =>
              /\ providerCalls' = providerCalls
              /\ usersTbl' = usersTbl
              /\ tokenOut'.kind = "creds"
              /\ tokenOut'.creds.accessToken = CallerRow.googleAccessToken
              /\ tokenOut'.creds.refreshToken = CallerRow.googleRefreshToken
              /\ tokenOut'.creds.expiresAt = CallerRow.googleTokenExpiresAt
        /\ (CallerHasToken /\
            CallerRow.googleTokenExpiresAt <= now + TOKEN_REFRESH_BUFFER_MS) =>
              /\ (CallerRow.googleRefreshToken # "null" /\ googleEnv = GoogleEnvNames)
                    => providerCalls' = providerCalls + 1
              /\ tokenOut'.kind = "creds" =>
                    /\ providerCalls' = providerCalls + 1
                    /\ tokenOut'.creds.accessToken \in {"t1", "t2"}
                    /\ tokenOut'.creds.expiresAt = NullDate
                          \/ tokenOut'.creds.expiresAt > now
                    /\ usersTbl'[tokenOut'.user].googleAccessToken
                          = tokenOut'.creds.accessToken
                    /\ usersTbl'[tokenOut'.user].googleTokenExpiresAt
                          = tokenOut'.creds.expiresAt
                    /\ usersTbl'[tokenOut'.user].googleRefreshToken
                          = tokenOut'.creds.refreshToken
                    /\ \A other \in OAuthUsers \ {tokenOut'.user} :
                          usersTbl'[other] = usersTbl[other]
    ]_vars

\* C18 witness: a token that was left alone while its expiry was far
\* enough away has been refreshed, after the clock advanced, by a later
\* call, and the record holds what that call returned.
C18_Witness ==
    /\ oauthCalls = 2 /\ providerCalls = 1 /\ now > 0
    /\ tokenOut.user = "u1" /\ tokenOut.kind = "creds"
    /\ tokenOut.creds.accessToken = "t2"
    /\ usersTbl["u1"].googleAccessToken = "t2"
    /\ usersTbl["u1"].googleTokenExpiresAt = tokenOut.creds.expiresAt
    /\ usersTbl["u1"].googleTokenExpiresAt > now + TOKEN_REFRESH_BUFFER_MS

\* the text of a failed refresh, as refreshGoogleAccessToken words it
SaysRefreshFailed(message) ==
    \/ IndexOf(message, "missing a refresh token") # 0
    \/ IndexOf(message, "Failed to refresh Google token") # 0

MaxSelectCalls == 2

SelectChatId == "c1"

\* Some of the provider/model pairs the selector offers.
SelectionOptions ==
    { [provider |-> DEFAULT_PROVIDER_ID, model |-> DEFAULT_MODEL_ID],
      [provider |-> "xai", model |-> "grok-code-fast-1"],
      [provider |-> "openai", model |-> "gpt-5.1-codex-max"] }

NoSelection == [provider |-> "", model |-> ""]

SelectionErrorText == "Unable to switch models. Staying on the previous selection."

\* What the page shows: the provider and model of the settings context.
Displayed == [provider |-> chatSettings.provider, model |-> chatSettings.model]

\* ChatSettingsProvider: the initial state of the context; no page has
\* rendered a chat yet and the conversation has no row.
SelectInit ==
    /\ chatSettings = [provider |-> DEFAULT_PROVIDER_ID, model |-> DEFAULT_MODEL_ID,
                       chatId |-> "null", isModelSaving |-> FALSE,
                       selectionError |-> "null"]
    /\ selectCalls = << >>
    /\ storedSelection = NoSelection
    /\ pageProps = [mode |-> "none", provider |-> "", model |-> ""]
    /\ refreshPending = FALSE

\* The chat page of an existing conversation is opened: ChatPage reads the
\* row and passes its provider and model to Chat, whose effect calls
\* syncFromChat with them and the id.
OpenChatPage(stored) ==
    /\ chatSettings.chatId = "null"
    /\ pageProps.mode = "none"
    /\ storedSelection' = stored
    /\ pageProps' = [mode |-> "chat", provider |-> stored.provider, model |-> stored.model]
    /\ chatSettings' = [chatSettings EXCEPT !.provider = stored.provider,
                                            !.model = stored.model,
                                            !.chatId = SelectChatId]
    /\ UNCHANGED <<selectCalls, refreshPending>>
    /\ UNCHANGED nonSelectVars

\* On the home page the first exchange ends: the POST has created the row
\* with the selection the transport sent, and onFinish sets the chat id of
\* the context and asks for a refresh.  Chat still has no id prop.
FirstMessageFinished ==
    /\ chatSettings.chatId = "null"
    /\ pageProps.mode = "none"
    /\ storedSelection' = Displayed
    /\ pageProps' = [mode |-> "home", provider |-> "", model |-> ""]
    /\ chatSettings' = [chatSettings EXCEPT !.chatId = SelectChatId]
    /\ refreshPending' = TRUE
    /\ UNCHANGED selectCalls
    /\ UNCHANGED nonSelectVars

\* selectModel up to its await (lines 98-122).  A call with the selection
\* already shown returns at once and changes nothing.  A call record keeps
\* the arguments, the previousProvider/previousModel the call captured and
\* where the request is: "sent", "updated" or "rejected" by the server, and
\* "ok" or "failed" once the call has run to its end.
SelectModel(next) ==
    /\ next # Displayed
    /\ IF chatSettings.chatId = "null"
       THEN /\ chatSettings' = [chatSettings EXCEPT !.selectionError = "null",
                                                    !.provider = next.provider,
                                                    !.model = next.model]
            /\ UNCHANGED selectCalls
       ELSE /\ Len(selectCalls) < MaxSelectCalls
            /\ chatSettings' = [chatSettings EXCEPT !.selectionError = "null",
                                                    !.provider = next.provider,
                                                    !.model = next.model,
                                                    !.isModelSaving = TRUE]
            /\ selectCalls' = Append(selectCalls,
                                 [next |-> next, previous |-> Displayed, status |-> "sent"])
    /\ UNCHANGED <<storedSelection, pageProps, refreshPending>>
    /\ UNCHANGED nonSelectVars

\* updateChatProvider for the row of the caller: the row takes the
\* selection of the request.
UpdateChatProvider(selection) == storedSelection' = selection

\* The server answers the PATCH of call i: it updates the row, or the
\* request fails (the update throws, the server answers an error, or the
\* fetch is rejected).
ServerPatch(i, ok) ==
    /\ i \in 1..Len(selectCalls)
    /\ selectCalls[i].status = "sent"
    /\ IF ok
       THEN /\ UpdateChatProvider(selectCalls[i].next)
            /\ selectCalls' = [selectCalls EXCEPT ![i].status = "updated"]
       ELSE /\ UNCHANGED storedSelection
            /\ selectCalls' = [selectCalls EXCEPT ![i].status = "rejected"]
    /\ UNCHANGED <<chatSettings, pageProps, refreshPending>>
    /\ UNCHANGED nonSelectVars

\* Lines 132-133: the catch puts back the selection the call captured.
RestoredSelection(i) == selectCalls[i].previous

\* The response of call i arrives and the call runs to its end (lines
\* 124-137): router.refresh() after a success; after a failure the
\* previous selection is restored and the error is set; the saving flag
\* is cleared in both cases.
SelectSettle(i) ==
    /\ i \in 1..Len(selectCalls)
    /\ selectCalls[i].status \in {"updated", "rejected"}
    /\ IF selectCalls[i].status = "updated"
       THEN /\ chatSettings' = [chatSettings EXCEPT !.isModelSaving = FALSE]
            /\ refreshPending' = TRUE
            /\ selectCalls' = [selectCalls EXCEPT ![i].status = "ok"]
       ELSE /\ chatSettings' = [chatSettings EXCEPT
                                   !.provider = RestoredSelection(i).provider,
                                   !.model = RestoredSelection(i).model,
                                   !.selectionError = SelectionErrorText,
                                   !.isModelSaving = FALSE]
            /\ UNCHANGED refreshPending
            /\ selectCalls' = [selectCalls EXCEPT ![i].status = "failed"]
    /\ UNCHANGED <<storedSelection, pageProps>>
    /\ UNCHANGED nonSelectVars

\* The refresh lands: the page is rendered again on the server.  On the
\* chat page Chat gets the row's provider and model, and when they differ
\* from the props it had, its effect syncs the context from them; on the
\* home page Chat has no id and the selection is left alone.
RefreshLands ==
    /\ refreshPending
    /\ refreshPending' = FALSE
    /\ IF pageProps.mode = "chat" /\
          [provider |-> pageProps.provider, model |-> pageProps.model] # storedSelection
       THEN /\ pageProps' = [pageProps EXCEPT !.provider = storedSelection.provider,
                                              !.model = storedSelection.model]
            /\ chatSettings' = [chatSettings EXCEPT !.provider = storedSelection.provider,
                                                    !.model = storedSelection.model]
       ELSE UNCHANGED <<pageProps, chatSettings>>
    /\ UNCHANGED <<selectCalls, storedSelection>>
    /\ UNCHANGED nonSelectVars

SelectNext ==
    \/ \E stored \in SelectionOptions : OpenChatPage(stored)
    \/ FirstMessageFinished
    \/ \E next \in SelectionOptions : SelectModel(next)
    \/ \E i \in 1..MaxSelectCalls, ok \in BOOLEAN : ServerPatch(i, ok)
    \/ \E i \in 1..MaxSelectCalls : SelectSettle(i)
    \/ RefreshLands

(***************************************************************************)
(* Properties of the model selection.                                      *)
(***************************************************************************)

\* every update request has settled and no refresh is on its way
SelectionSettled ==
    /\ Len(selectCalls) > 0
    /\ \A i \in 1..Len(selectCalls) : selectCalls[i].status \in {"ok", "failed"}
    /\ ~refreshPending

\* the calls whose server update succeeded
SucceededCalls == {i \in 1..Len(selectCalls) : selectCalls[i].status = "ok"}

\* the most recent selection whose update succeeded, or the selection held
\* before the first call
ConvergedSelection ==
    IF SucceededCalls = {} THEN selectCalls[1].previous
    ELSE selectCalls[CHOOSE i \in SucceededCalls : \A j \in SucceededCalls : j <= i].next

\* C30: once the update requests of all selectModel calls have settled,
\* the saving flag is false and the selection shown is the most recent one
\* whose server update succeeded, or the one held before the first call if
\* none succeeded; after a single call that failed, the selection shown is
\* the one held before it and the error message is set.
C30_SelectionConverges ==
    SelectionSettled =>
        /\ ~chatSettings.isModelSaving
        /\ Displayed = ConvergedSelection
        /\ (Len(selectCalls) = 1 /\ selectCalls[1].status = "failed") =>
              /\ Displayed = selectCalls[1].previous
              /\ chatSettings.selectionError # "null"

(***************************************************************************)
(* Specifications.                                                         *)
(***************************************************************************)
Init == RelayInit /\ CacheInit /\ ChatInit /\ StoreInit /\ AgentInit /\ OAuthInit
        /\ ProxyInit /\ SelectInit

\* The relay and the cache do not read the environment.
InitDefaultEnv == Init /\ env = DefaultEnv

\* Only the credential calls read the Google columns and the GOOGLE_*
\* variables.
DefaultGoogle ==
    /\ usersTbl = [u \in OAuthUsers |-> GoogleTokenRow(TRUE, "t0", "r0", 3 * TickMs, "s0")]
    /\ googleEnv = GoogleEnvNames

InitDefault == InitDefaultEnv /\ DefaultGoogle

SpecRelay == InitDefault /\ [][RelayNext]_vars

SpecCache == InitDefault /\ [][CacheNext]_vars

\* The chat handler reads the whole environment.
InitChat == Init /\ DefaultGoogle

SpecChat == InitChat /\ [][ChatNext]_vars

SpecStore == InitDefault /\ [][StoreNext]_vars

SpecAgent == InitDefault /\ [][AgentNext]_vars

SpecOAuth == InitDefaultEnv /\ [][OAuthNext]_vars

SpecProxy == InitDefault /\ [][ProxyNext]_vars

SpecSelect == InitDefault /\ [][SelectNext]_vars

====
